---- MODULE Spec2Model ----
(***************************************************************************)
(* State-machine model of the lftools-uv cleanup utilities.                *)
(*                                                                         *)
(* Part 1: openstack/cluster.py (list_clusters, cleanup and the helpers    *)
(*         _fetch_jenkins_builds, _cluster_in_jenkins).                    *)
(* Part 2: the server / volume / image cleanup pipeline (lister, filter,   *)
(*         deleter, reporter).                                             *)
(* Part 3: the single-resource remove of a server or a volume.             *)
(* Part 4: cli/infofile.py, check-votes (main and its one recursion).      *)
(* Part 5: lfidapi.py (helper_match_ldap_to_info, helper_create_group).    *)
(* Part 6: cli/infofile.py, sync-committers.                               *)
(*                                                                         *)
(* Python strings are TLA+ strings; Len, SubSeq and \o act on them as on   *)
(* sequences of characters.                                                *)
(***************************************************************************)
EXTENDS Integers, Sequences, FiniteSets, TLC

(***************************************************************************)
(* Bounds of the model.                                                    *)
(***************************************************************************)
MaxClusters == 2
MaxResources == 2
MaxCommitters == 2

(***************************************************************************)
(* Python string helpers, computed character by character.                 *)
(***************************************************************************)
CharAt(s, i) == SubSeq(s, i, i)

IsSpace(c) == c \in {" ", "\t", "\n"}

\* sub in str
Contains(str, sub) ==
    \E i \in 1..(Len(str) - Len(sub) + 1) : SubSeq(str, i, i + Len(sub) - 1) = sub

\* s.rstrip(c)
RECURSIVE RStripChar(_, _)
RStripChar(s, c) ==
    IF Len(s) > 0 /\ CharAt(s, Len(s)) = c
    THEN RStripChar(SubSeq(s, 1, Len(s) - 1), c)
    ELSE s

RECURSIVE LStripWS(_)
LStripWS(s) ==
    IF Len(s) > 0 /\ IsSpace(CharAt(s, 1))
    THEN LStripWS(SubSeq(s, 2, Len(s)))
    ELSE s

RECURSIVE RStripWS(_)
RStripWS(s) ==
    IF Len(s) > 0 /\ IsSpace(CharAt(s, Len(s)))
    THEN RStripWS(SubSeq(s, 1, Len(s) - 1))
    ELSE s

\* s.strip()
Strip(s) == LStripWS(RStripWS(s))

\* s.split(c): the pieces between occurrences of c, empty pieces kept
RECURSIVE SplitOnFrom(_, _, _, _, _)
SplitOnFrom(s, c, i, cur, acc) ==
    IF i > Len(s) THEN Append(acc, cur)
    ELSE IF CharAt(s, i) = c
         THEN SplitOnFrom(s, c, i + 1, "", Append(acc, cur))
         ELSE SplitOnFrom(s, c, i + 1, cur \o CharAt(s, i), acc)

SplitOn(s, c) == SplitOnFrom(s, c, 1, "", <<>>)

\* s.split(): the maximal runs of non-whitespace characters
RECURSIVE SplitWSFrom(_, _, _, _)
SplitWSFrom(s, i, cur, acc) ==
    IF i > Len(s) THEN (IF cur = "" THEN acc ELSE Append(acc, cur))
    ELSE IF IsSpace(CharAt(s, i))
         THEN SplitWSFrom(s, i + 1, "", IF cur = "" THEN acc ELSE Append(acc, cur))
         ELSE SplitWSFrom(s, i + 1, cur \o CharAt(s, i), acc)

SplitWS(s) == SplitWSFrom(s, 1, "", <<>>)

\* sep.join(seq)
RECURSIVE Join(_, _)
Join(seq, sep) ==
    IF Len(seq) = 0 THEN ""
    ELSE IF Len(seq) = 1 THEN seq[1]
    ELSE seq[1] \o sep \o Join(Tail(seq), sep)

\* [f(x) for x in seq if p(x)] for the url list of cleanup
RECURSIVE StripNonEmpty(_)
StripNonEmpty(seq) ==
    IF Len(seq) = 0 THEN <<>>
    ELSE IF Strip(seq[1]) # ""
         THEN <<Strip(seq[1])>> \o StripNonEmpty(Tail(seq))
         ELSE StripNonEmpty(Tail(seq))

(***************************************************************************)
(* Optional strings: Python's None against a str.                          *)
(***************************************************************************)
None == [none |-> TRUE, val |-> ""]
Some(s) == [none |-> FALSE, val |-> s]

\* truthiness of an optional str
Truthy(o) == ~o.none /\ o.val # ""

(***************************************************************************)
(* _fetch_jenkins_builds: the token of one executor entry.                 *)
(*                                                                         *)
(* An executor entry of the JSON payload is a record                       *)
(*   ce  : "absent" (no currentExecutable key), "null" (JSON null),        *)
(*         "obj" (an object)                                               *)
(*   url : None (no url key or JSON null) or Some(string)                  *)
(***************************************************************************)
Executor(ce, url) == [ce |-> ce, url |-> url]

\* the silo of an endpoint, after rstrip("/")
Silo(jenkins) ==
    IF Contains(jenkins, "jenkins.") /\ (Contains(jenkins, ".org") \/ Contains(jenkins, ".io"))
    THEN "production"
    ELSE LET p == SplitOn(jenkins, "/") IN p[Len(p)]

\* executor.get("currentExecutable", {}).get("url") raises on a null currentExecutable
ExecRaises(e) == e.ce = "null"

\* the url read from an entry that does not raise
ExecUrl(e) == IF e.ce = "obj" THEN e.url ELSE None

\* the tokens one entry appends (zero or one)
ExecTokens(e, silo) ==
    LET url == ExecUrl(e) IN
    IF Truthy(url) /\ url.val # "null"
    THEN LET parts == SplitOn(RStripChar(url.val, "/"), "/") IN
         IF Len(parts) >= 2
         THEN <<silo \o "-" \o parts[Len(parts) - 1] \o "-" \o parts[Len(parts)]>>
         ELSE <<>>
    ELSE <<>>

\* the entries of a payload in the order the loops visit them
RECURSIVE FlattenComputers(_)
FlattenComputers(computers) ==
    IF Len(computers) = 0 THEN <<>>
    ELSE computers[1].executors \o computers[1].oneOffExecutors
         \o FlattenComputers(Tail(computers))

\* the loops over the entries: tokens appended until an entry raises
RECURSIVE ScanExecutors(_, _, _)
ScanExecutors(entries, silo, acc) ==
    IF Len(entries) = 0 THEN [tokens |-> acc, raised |-> FALSE]
    ELSE IF ExecRaises(entries[1]) THEN [tokens |-> acc, raised |-> TRUE]
    ELSE ScanExecutors(Tail(entries), silo, acc \o ExecTokens(entries[1], silo))

\* a variant that looks for the name as a whole token
ClusterInJenkins_Exact(cluster_name, jenkins_builds) ==
    \E i \in DOMAIN jenkins_builds : jenkins_builds[i] = cluster_name

\* a variant that compares against the production token of the name only
ClusterInJenkins_Production(cluster_name, jenkins_builds) ==
    \E i \in DOMAIN jenkins_builds : jenkins_builds[i] = "production-" \o cluster_name

\* cluster_name in " ".join(jenkins_builds)
\* a variant that joins the tokens with no separator
ClusterInJenkins_NoSeparator(cluster_name, jenkins_builds) ==
    Contains(Join(jenkins_builds, ""), cluster_name)

\* a variant that takes every cluster for in use when no build is known
ClusterInJenkins_EmptyInUse(cluster_name, jenkins_builds) ==
    jenkins_builds = <<>> \/ Contains(Join(jenkins_builds, " "), cluster_name)

ClusterInJenkins(cluster_name, jenkins_builds) ==
    Contains(Join(jenkins_builds, " "), cluster_name)

\* a variant that knows the production marker only
IsManaged_ProdOnly(cluster_name) == Contains(cluster_name, "-managed-prod-k8s-")

\* the managed (long-lived) name test of cleanup
IsManaged(cluster_name) ==
    Contains(cluster_name, "-managed-prod-k8s-") \/ Contains(cluster_name, "-managed-test-k8s-")

\* a variant that splits on single spaces and keeps the empty pieces
ParseJenkinsUrls_KeepEmpty(jenkins_urls) ==
    IF ~jenkins_urls.none THEN SplitOn(jenkins_urls.val, " ") ELSE <<>>

\* jenkins_url_list of cleanup
ParseJenkinsUrls(jenkins_urls) ==
    IF Truthy(jenkins_urls) THEN StripNonEmpty(SplitWS(jenkins_urls.val)) ELSE <<>>

(***************************************************************************)
(* The environment of a cluster run: what the caller passes, what the      *)
(* build systems answer and what the cloud holds and answers.              *)
(***************************************************************************)
JenkinsUrlInputs ==
    { None, Some(""), Some("   "),
      Some("https://jenkins.example.org"),
      Some("https://jenkins.iot.example.com/sandbox"),
      Some("https://jenkins.example.org/  https://jenkins.example.com/sandbox") }

ClusterNamePool ==
    { "orphaned-1", "x-managed-prod-k8s-y", "p-managed-test-k8s-c", "active-job-123" }

RECURSIVE SeqsUpTo(_, _)
SeqsUpTo(S, n) ==
    IF n = 0 THEN { <<>> }
    ELSE LET shorter == SeqsUpTo(S, n - 1) IN
         shorter \cup { Append(q, x) : q \in { r \in shorter : Len(r) = n - 1 }, x \in S }

\* every list of at most MaxClusters names, and the three-cluster cloud of the example
ClusterLists ==
    SeqsUpTo(ClusterNamePool, MaxClusters)
    \cup { << "orphaned-1", "x-managed-prod-k8s-y", "active-job-123" >> }

Computer(executors, oneOff) == [executors |-> executors, oneOffExecutors |-> oneOff]

PayloadPool ==
    { <<>>,
      << Computer(<< Executor("obj", Some("https://jenkins.example.org/job/active-job/123/")) >>,
                  <<>>) >>,
      << Computer(<< Executor("obj", Some("null")),
                     Executor("absent", None),
                     Executor("obj", Some("")),
                     Executor("obj", None),
                     Executor("obj", Some("123")) >>,
                  << Executor("obj", Some("https://jenkins.example.org/job/orphaned/1")) >>) >>,
      << Computer(<< Executor("obj", Some("https://jenkins.example.org/job/orphaned/1")),
                     Executor("null", None),
                     Executor("obj", Some("https://jenkins.example.org/job/active-job/123/")) >>,
                  <<>>) >> }

\* what one GET of an endpoint can produce
HttpResponses ==
    { [kind |-> k, computer |-> <<>>] : k \in {"status", "timeout", "reqexc", "exc", "badjson"} }
    \cup { [kind |-> "ok", computer |-> p] : p \in PayloadPool }

\* what list_coe_clusters can produce
ListOutcomes == {"ok", "cloud_exc", "attr_error", "other_exc"}

\* what delete_coe_cluster can produce: a return value or a raised error.
\*   "cloud_exc"  OpenStackCloudException("Delete failed")
\*   "cloud_dup"  OpenStackCloudException("Multiple matches found for <name>")
\*   "attr_error" AttributeError
\*   "other_exc"  an exception of any other class
DeleteOutcomes == {"true", "false", "cloud_exc", "cloud_dup", "attr_error", "other_exc"}

\* the outcomes that are an OpenStackCloudException
ProviderExceptions == {"cloud_exc", "cloud_dup"}

(***************************************************************************)
(* State of one run of the cluster sub-command.                            *)
(***************************************************************************)
VARIABLES
    command,          \* "cleanup" or "list": the function that runs
    pc,               \* position in the function
    jenkins_urls,     \* argument of cleanup
    jenkins_url_list, \* cleanup: parsed endpoints
    url_i,            \* _fetch_jenkins_builds: index of the next endpoint
    active_builds,    \* builds collected so far
    http_gets,        \* endpoints queried so far (requests.get calls)
    fetch_log,        \* per endpoint queried: the answer and the tokens it contributed
    connections,      \* number of openstack.connection.from_config calls
    cloud_clusters,   \* names of the clusters the cloud holds
    list_calls,       \* number of list_coe_clusters calls
    list_result,      \* outcome of the list_coe_clusters call ("none" before it)
    cluster_names,    \* cleanup: the listed names
    cl_i,             \* cleanup: index of the next listed name
    deleted_count,    \* cleanup: deleted_count
    delete_calls,     \* names passed to delete_coe_cluster, in call order
    delete_results,   \* outcome of each delete call, in call order
    out,              \* lines printed, in order
    exit_status       \* "none" (running), "0" (returned), "1" (sys.exit(1)), "raised"

clusterVars ==
    << command, pc, jenkins_urls, jenkins_url_list, url_i, active_builds, http_gets,
       fetch_log,
       connections, cloud_clusters, list_calls, list_result, cluster_names, cl_i,
       deleted_count, delete_calls, delete_results, out, exit_status >>

(***************************************************************************)
(* State of one run of the server, volume or image cleanup.                *)
(***************************************************************************)
VARIABLES
    utility,          \* "server", "volume" or "image": the cleanup that runs
    res_pc,           \* position in the cleanup
    days,             \* age threshold in days, 0 for none
    now,              \* the current time, in days
    tenant_id,        \* id of the current project (images)
    cloud_resources,  \* descriptors of the resources the cloud holds
    candidates,       \* the listed resources that passed the filter
    res_i,            \* index of the next candidate
    n_deleted,        \* resources counted as deleted
    n_skipped,        \* resources counted as skipped
    res_delete_calls, \* descriptors passed to the delete call, in call order
    res_delete_results, \* outcome of each delete call, in call order
    res_out,          \* lines printed, in order
    res_exit          \* "none" (running), "0", "1", "raised"

resourceVars ==
    << utility, res_pc, days, now, tenant_id, cloud_resources, candidates, res_i,
       n_deleted, n_skipped, res_delete_calls, res_delete_results, res_out, res_exit >>

(***************************************************************************)
(* State of one run of the single-resource remove of a server or a volume. *)
(***************************************************************************)
VARIABLES
    rm_kind,          \* "server" or "volume": the remove that runs
    rm_pc,            \* position in the remove
    rm_ident,         \* the identifier given: a server name, a volume id
    minutes,          \* minimum age in minutes, 0 for none
    rm_now,           \* the current time, in minutes
    rm_cloud,         \* descriptors of the resources the cloud holds
    rm_found,         \* what the lookup returned
    rm_delete_calls,  \* argument of each delete call, in call order
    rm_delete_results, \* outcome of each delete call, in call order
    rm_out,           \* lines printed, in order
    rm_exit           \* "none" (running), "0", "1", "raised"

removeVars ==
    << rm_kind, rm_pc, rm_ident, minutes, rm_now, rm_cloud, rm_found,
       rm_delete_calls, rm_delete_results, rm_out, rm_exit >>

(***************************************************************************)
(* State of one run of check-votes.                                        *)
(***************************************************************************)
VARIABLES
    vt_pc,            \* position in check-votes
    info_file,        \* path of the file the next call of main opens
    tsc,              \* path of the TSC file, or None
    github_repo,      \* the GitHub repository, or None for Gerrit
    yaml_files,       \* the files on disk: path and committers list of each
    reviewers,        \* what Gerrit answers for the reviewers of the change
    githubvotes,      \* what prvotes answers for the pull request
    majority_of_committers, \* the escalation counter
    stages,           \* the calls of main so far: file, identifiers, approvers, outcome
    divisions,        \* the divisions computed so far: numerator and denominator
    vt_out,           \* lines logged, in order
    vt_exit           \* "none" (running), "0", "1", "raised"

voteVars ==
    << vt_pc, info_file, tsc, github_repo, yaml_files, reviewers, githubvotes,
       majority_of_committers, stages, divisions, vt_out, vt_exit >>

(***************************************************************************)
(* State of one run of a helper of lfidapi.py.                             *)
(***************************************************************************)
VARIABLES
    lf_op,            \* "match" (helper_match_ldap_to_info) or "create_group"
    lf_pc,            \* position in the helper
    githuborg,        \* the GitHub organisation, or None for LDAP
    noop,             \* the noop argument
    lf_info,          \* the committers list of the INFO file
    group_status,     \* the status the existence check of the group answers
    group_members,    \* the members the group holds on the server
    ldap_committers,  \* the members read at the start of the run
    all_users,        \* the users the loop goes over
    lf_i,             \* index of the next user
    api_calls,        \* requests that change the server, in call order: method and user
    api_statuses,     \* the status answered to each of them
    lf_out,           \* lines printed or logged, in order
    lf_exit           \* "none" (running), "0", "1", "raised"

lfidVars ==
    << lf_op, lf_pc, githuborg, noop, lf_info, group_status, group_members,
       ldap_committers, all_users, lf_i, api_calls, api_statuses, lf_out, lf_exit >>

(***************************************************************************)
(* State of one run of sync-committers.                                    *)
(***************************************************************************)
VARIABLES
    sy_pc,            \* position in sync-committers
    sy_build,         \* which text of readldap the build runs
    sy_id,            \* the id given
    sy_repo,          \* the --repo option, or None
    info_data,        \* the INFO file on disk: committers and repositories
    ldap_data,        \* the committers of the LDAP file
    sy_writes,        \* what was written to the INFO file, in order
    sy_out,           \* lines printed or logged, in order
    sy_exit           \* "none" (running), "0", "1", "raised"

syncVars ==
    << sy_pc, sy_build, sy_id, sy_repo, info_data, ldap_data, sy_writes, sy_out, sy_exit >>

vars == << clusterVars, resourceVars, removeVars, voteVars, lfidVars, syncVars >>

\* what a cluster sub-command leaves alone
nonClusterVars == << resourceVars, removeVars, voteVars, lfidVars, syncVars >>

\* what a cleanup of servers, volumes or images leaves alone
nonResourceVars == << clusterVars, removeVars, voteVars, lfidVars, syncVars >>

\* what a single-resource remove leaves alone
nonRemoveVars == << clusterVars, resourceVars, voteVars, lfidVars, syncVars >>

\* what check-votes leaves alone
nonVoteVars == << clusterVars, resourceVars, removeVars, lfidVars, syncVars >>

\* what a helper of lfidapi.py leaves alone
nonLfidVars == << clusterVars, resourceVars, removeVars, voteVars, syncVars >>

\* what sync-committers leaves alone
nonSyncVars == << clusterVars, resourceVars, removeVars, voteVars, lfidVars >>

\* what a lookup returns: nothing, or the descriptor of the resource
NotFound == [found |-> FALSE, id |-> "", name |-> "", created_at |-> 0]
Found(id, name, created_at) ==
    [found |-> TRUE, id |-> id, name |-> name, created_at |-> created_at]

\* no single-resource remove runs
RemoveIdle ==
    /\ rm_kind = "none"
    /\ rm_pc = "idle"
    /\ rm_ident = ""
    /\ minutes = 0
    /\ rm_now = 0
    /\ rm_cloud = <<>>
    /\ rm_found = NotFound
    /\ rm_delete_calls = <<>>
    /\ rm_delete_results = <<>>
    /\ rm_out = <<>>
    /\ rm_exit = "none"

\* no server, volume or image cleanup runs
ResourceIdle ==
    /\ utility = "none"
    /\ res_pc = "idle"
    /\ days = 0
    /\ now = 0
    /\ tenant_id = ""
    /\ cloud_resources = <<>>
    /\ candidates = <<>>
    /\ res_i = 1
    /\ n_deleted = 0
    /\ n_skipped = 0
    /\ res_delete_calls = <<>>
    /\ res_delete_results = <<>>
    /\ res_out = <<>>
    /\ res_exit = "none"

\* no helper of lfidapi.py runs
LfidIdle ==
    /\ lf_op = "none"
    /\ lf_pc = "idle"
    /\ githuborg = None
    /\ noop = FALSE
    /\ lf_info = <<>>
    /\ group_status = 0
    /\ group_members = <<>>
    /\ ldap_committers = <<>>
    /\ all_users = <<>>
    /\ lf_i = 1
    /\ api_calls = <<>>
    /\ api_statuses = <<>>
    /\ lf_out = <<>>
    /\ lf_exit = "none"

\* sync-committers does not run
SyncIdle ==
    /\ sy_pc = "idle"
    /\ sy_build = "none"
    /\ sy_id = ""
    /\ sy_repo = None
    /\ info_data = [committers |-> <<>>, repositories |-> <<>>]
    /\ ldap_data = <<>>
    /\ sy_writes = <<>>
    /\ sy_out = <<>>
    /\ sy_exit = "none"

\* nothing of lfidapi.py or sync-committers runs
OthersIdle == LfidIdle /\ SyncIdle

\* check-votes does not run
VoteIdle ==
    /\ vt_pc = "idle"
    /\ info_file = ""
    /\ tsc = None
    /\ github_repo = None
    /\ yaml_files = <<>>
    /\ reviewers = <<>>
    /\ githubvotes = <<>>
    /\ majority_of_committers = 0
    /\ stages = <<>>
    /\ divisions = <<>>
    /\ vt_out = <<>>
    /\ vt_exit = "none"

\* one printed line: severity prefix, message, the name it mentions, the number it mentions
Line(sev, msg, arg, n) == [sev |-> sev, msg |-> msg, arg |-> arg, n |-> n]

InitCluster ==
    /\ command \in {"cleanup", "list"}
    /\ pc = "start"
    /\ jenkins_urls \in (IF command = "cleanup" THEN JenkinsUrlInputs ELSE {None})
    /\ jenkins_url_list = <<>>
    /\ url_i = 1
    /\ active_builds = <<>>
    /\ http_gets = <<>>
    /\ fetch_log = <<>>
    /\ connections = 0
    /\ cloud_clusters \in ClusterLists
    /\ list_calls = 0
    /\ list_result = "none"
    /\ cluster_names = <<>>
    /\ cl_i = 1
    /\ deleted_count = 0
    /\ delete_calls = <<>>
    /\ delete_results = <<>>
    /\ out = <<>>
    /\ exit_status = "none"
    /\ ResourceIdle
    /\ RemoveIdle
    /\ VoteIdle
    /\ OthersIdle

\* the cloud after a successful delete of one cluster of that name
RECURSIVE RemoveFirst(_, _)
RemoveFirst(seq, x) ==
    IF Len(seq) = 0 THEN <<>>
    ELSE IF seq[1] = x THEN Tail(seq)
    ELSE <<seq[1]>> \o RemoveFirst(Tail(seq), x)

(***************************************************************************)
(* cleanup, lines 128-137: parse the endpoints, return when there is none. *)
(***************************************************************************)
CleanupStart ==
    /\ UNCHANGED nonClusterVars
    /\ command = "cleanup"
    /\ pc = "start"
    /\ LET lst == ParseJenkinsUrls(jenkins_urls) IN
       /\ jenkins_url_list' = lst
       /\ IF lst = <<>>
          THEN /\ out' = Append(out, Line("WARN", "No Jenkins URLs provided, skipping cluster cleanup to be safe", "", 0))
               /\ pc' = "done"
               /\ exit_status' = "0"
          ELSE /\ out' = Append(out, Line("INFO", "Checking Jenkins URLs for active builds", Join(lst, " "), 0))
               /\ pc' = "fetch"
               /\ exit_status' = exit_status
    /\ UNCHANGED << command, jenkins_urls, url_i, active_builds, http_gets,
                    fetch_log, connections,
                    cloud_clusters, list_calls, list_result, cluster_names, cl_i,
                    deleted_count, delete_calls, delete_results >>

(***************************************************************************)
(* _fetch_jenkins_builds, lines 31-78: one iteration of the endpoint loop, *)
(* and after the last one the return to cleanup (lines 140-141).           *)
(***************************************************************************)
\* a variant that passes over an answer that is not JSON without a word
FetchOne_SilentBadJson(jenkins, resp) ==
    IF resp.kind = "status"
    THEN [tokens |-> <<>>, lines |-> << Line("ERROR", "Failed to fetch data", jenkins, 0) >>]
    ELSE IF resp.kind = "timeout"
    THEN [tokens |-> <<>>, lines |-> << Line("ERROR", "Timeout fetching data", jenkins, 0) >>]
    ELSE IF resp.kind = "reqexc"
    THEN [tokens |-> <<>>, lines |-> << Line("ERROR", "Request failed", jenkins, 0) >>]
    ELSE IF resp.kind = "exc"
    THEN [tokens |-> <<>>, lines |-> << Line("ERROR", "Unexpected error fetching", jenkins, 0) >>]
    ELSE IF resp.kind = "badjson"
    THEN [tokens |-> <<>>, lines |-> <<>>]
    ELSE LET scan == ScanExecutors(FlattenComputers(resp.computer), Silo(jenkins), <<>>) IN
         [tokens |-> scan.tokens,
          lines  |-> IF scan.raised
                     THEN << Line("ERROR", "Unexpected error fetching", jenkins, 0) >>
                     ELSE <<>>]

\* what one endpoint adds to builds and prints, given the response
FetchOne(jenkins, resp) ==
    IF resp.kind = "status"
    THEN [tokens |-> <<>>, lines |-> << Line("ERROR", "Failed to fetch data", jenkins, 0) >>]
    ELSE IF resp.kind = "timeout"
    THEN [tokens |-> <<>>, lines |-> << Line("ERROR", "Timeout fetching data", jenkins, 0) >>]
    ELSE IF resp.kind = "reqexc"
    THEN [tokens |-> <<>>, lines |-> << Line("ERROR", "Request failed", jenkins, 0) >>]
    ELSE IF resp.kind = "exc"
    THEN [tokens |-> <<>>, lines |-> << Line("ERROR", "Unexpected error fetching", jenkins, 0) >>]
    ELSE IF resp.kind = "badjson"
    THEN [tokens |-> <<>>, lines |-> << Line("ERROR", "Failed to parse JSON", jenkins, 0) >>]
    ELSE LET scan == ScanExecutors(FlattenComputers(resp.computer), Silo(jenkins), <<>>) IN
         [tokens |-> scan.tokens,
          lines  |-> IF scan.raised
                     THEN << Line("ERROR", "Unexpected error fetching", jenkins, 0) >>
                     ELSE <<>>]

FetchEndpoint ==
    /\ UNCHANGED nonClusterVars
    /\ command = "cleanup"
    /\ pc = "fetch"
    /\ url_i <= Len(jenkins_url_list)
    /\ \E resp \in HttpResponses :
         LET jenkins == RStripChar(jenkins_url_list[url_i], "/")
             got     == FetchOne(jenkins, resp)
             builds  == active_builds \o got.tokens
             last    == url_i = Len(jenkins_url_list)
         IN  /\ http_gets' = Append(http_gets, jenkins)
             /\ fetch_log' = Append(fetch_log, [jenkins |-> jenkins, resp |-> resp,
                                                tokens |-> got.tokens])
             /\ active_builds' = builds
             /\ url_i' = url_i + 1
             /\ out' = IF last
                       THEN out \o got.lines
                            \o << Line("INFO", "Found active builds in Jenkins", "", Len(builds)) >>
                       ELSE out \o got.lines
             /\ pc' = IF last THEN "list" ELSE "fetch"
    /\ UNCHANGED << command, jenkins_urls, jenkins_url_list, connections, cloud_clusters,
                    list_calls, list_result, cluster_names, cl_i, deleted_count,
                    delete_calls, delete_results, exit_status >>

(***************************************************************************)
(* cleanup, lines 143-150 and 176-183: connect and list the clusters.      *)
(***************************************************************************)
NotSupportedLines ==
    << Line("ERROR", "COE cluster operations not supported by this OpenStack SDK version", "", 0),
       Line("", "Please ensure openstacksdk >= 4.0.0 is installed", "", 0) >>

\* a variant whose handlers print and return instead of exiting
CleanupExcept_NoExit(err) ==
    IF err = "cloud_exc"
    THEN [lines |-> << Line("ERROR", "Failed to list clusters", "", 0) >>, status |-> "0"]
    ELSE IF err = "attr_error"
    THEN [lines |-> << Line("ERROR", "Failed to list clusters", "", 0) >>, status |-> "0"]
    ELSE [lines |-> <<>>, status |-> "raised"]

\* lines 176-183: what the outer handlers of cleanup print and how the run ends,
\* for an error that reaches them ("other_exc" is caught by neither)
CleanupExcept(err) ==
    IF err = "cloud_exc"
    THEN [lines |-> << Line("ERROR", "Failed to list clusters", "", 0) >>, status |-> "1"]
    ELSE IF err = "attr_error"
    THEN [lines |-> NotSupportedLines, status |-> "1"]
    ELSE [lines |-> <<>>, status |-> "raised"]

\* line 174, reached when the loop over cluster_names is over
DeletedLine(n) == Line("INFO", "Deleted orphaned cluster(s)", "", n)

CleanupList ==
    /\ UNCHANGED nonClusterVars
    /\ command = "cleanup"
    /\ pc = "list"
    /\ connections' = connections + 1
    /\ list_calls' = list_calls + 1
    /\ \E outcome \in ListOutcomes :
         /\ list_result' = outcome
         /\ IF outcome = "ok"
            THEN /\ cluster_names' = cloud_clusters
                 /\ IF Len(cloud_clusters) = 0
                    THEN /\ out' = out \o << Line("INFO", "Found COE clusters on cloud", "", 0),
                                             DeletedLine(0) >>
                         /\ pc' = "done"
                         /\ exit_status' = "0"
                    ELSE /\ out' = Append(out, Line("INFO", "Found COE clusters on cloud", "",
                                                    Len(cloud_clusters)))
                         /\ pc' = "loop"
                         /\ exit_status' = exit_status
            ELSE /\ cluster_names' = cluster_names
                 /\ pc' = "done"
                 /\ out' = out \o CleanupExcept(outcome).lines
                 /\ exit_status' = CleanupExcept(outcome).status
    /\ UNCHANGED << command, jenkins_urls, jenkins_url_list, url_i, active_builds, http_gets,
                    fetch_log,
                    cloud_clusters, cl_i, deleted_count, delete_calls, delete_results >>

(***************************************************************************)
(* cleanup, lines 154-174: one iteration of the loop over cluster_names,   *)
(* and after the last one the final count (line 174).                      *)
(***************************************************************************)
\* a variant that lets the provider exception of a delete call escape the loop
DeleteContinues_Reraise(outcome) == outcome \in {"true", "false"}

\* a variant whose handler catches every exception class
DeleteContinues_CatchAll(outcome) == TRUE

\* lines 167-172: the loop goes on after a delete call with this outcome
DeleteContinues(outcome) == outcome \in {"true", "false"} \cup ProviderExceptions

\* lines 168-169: deleted_count += 1 runs when the call did not raise
DeleteCounted(outcome) == outcome \in {"true", "false"}

\* lines 166-172: the lines printed around a delete call with this outcome
DeleteLines(name, outcome) ==
    << Line("INFO", "Deleting orphaned k8s cluster", name, 0) >>
    \o (IF DeleteCounted(outcome)
        THEN << Line("INFO", "Successfully deleted cluster", name, 0) >>
        ELSE IF outcome \in ProviderExceptions
        THEN << Line("ERROR", "Failed to delete cluster", name, 0) >>
        ELSE <<>>)

\* a variant that lists the clusters again after every iteration of the loop
CleanupCluster_Relist ==
    /\ UNCHANGED nonClusterVars
    /\ command = "cleanup"
    /\ pc = "loop"
    /\ cl_i <= Len(cluster_names)
    /\ LET name == cluster_names[cl_i]
           last == cl_i = Len(cluster_names)
           Continue(lines, cnt) ==
               /\ deleted_count' = cnt
               /\ cl_i' = cl_i + 1
               /\ out' = IF last THEN out \o lines \o << DeletedLine(cnt) >> ELSE out \o lines
               /\ pc' = IF last THEN "done" ELSE "loop"
               /\ exit_status' = IF last THEN "0" ELSE exit_status
       IN  IF IsManaged(name)
           THEN /\ Continue(<< Line("INFO", "Skipping managed cluster", name, 0) >>, deleted_count)
                /\ UNCHANGED << delete_calls, delete_results, cloud_clusters >>
           ELSE IF ClusterInJenkins(name, active_builds)
           THEN /\ Continue(<< Line("INFO", "Cluster is in use by active build, skipping", name, 0) >>,
                            deleted_count)
                /\ UNCHANGED << delete_calls, delete_results, cloud_clusters >>
           ELSE \E outcome \in DeleteOutcomes :
                  /\ delete_calls' = Append(delete_calls, name)
                  /\ delete_results' = Append(delete_results, outcome)
                  /\ cloud_clusters' = IF outcome = "true"
                                       THEN RemoveFirst(cloud_clusters, name)
                                       ELSE cloud_clusters
                  /\ IF DeleteContinues(outcome)
                     THEN Continue(DeleteLines(name, outcome),
                                   IF DeleteCounted(outcome) THEN deleted_count + 1
                                   ELSE deleted_count)
                     ELSE /\ deleted_count' = deleted_count
                          /\ cl_i' = cl_i
                          /\ out' = out \o DeleteLines(name, outcome)
                                        \o CleanupExcept(outcome).lines
                          /\ pc' = "done"
                          /\ exit_status' = CleanupExcept(outcome).status
    /\ list_calls' = list_calls + 1
    /\ cluster_names' = cloud_clusters'
    /\ UNCHANGED << command, jenkins_urls, jenkins_url_list, url_i, active_builds, http_gets,
                    fetch_log, connections, list_result >>

\* a variant that issues a delete call again after the provider refused it
CleanupCluster_Retry ==
    /\ UNCHANGED nonClusterVars
    /\ command = "cleanup"
    /\ pc = "loop"
    /\ cl_i <= Len(cluster_names)
    /\ LET name == cluster_names[cl_i]
           last == cl_i = Len(cluster_names)
           Continue(lines, cnt) ==
               LET again == Len(lines) = 2 /\ lines[2].sev = "ERROR" IN
               /\ deleted_count' = cnt
               /\ cl_i' = IF again THEN cl_i ELSE cl_i + 1
               /\ out' = IF last /\ ~again THEN out \o lines \o << DeletedLine(cnt) >>
                         ELSE out \o lines
               /\ pc' = IF last /\ ~again THEN "done" ELSE "loop"
               /\ exit_status' = IF last /\ ~again THEN "0" ELSE exit_status
       IN  IF IsManaged(name)
           THEN /\ Continue(<< Line("INFO", "Skipping managed cluster", name, 0) >>, deleted_count)
                /\ UNCHANGED << delete_calls, delete_results, cloud_clusters >>
           ELSE IF ClusterInJenkins(name, active_builds)
           THEN /\ Continue(<< Line("INFO", "Cluster is in use by active build, skipping", name, 0) >>,
                            deleted_count)
                /\ UNCHANGED << delete_calls, delete_results, cloud_clusters >>
           ELSE \E outcome \in DeleteOutcomes :
                  /\ delete_calls' = Append(delete_calls, name)
                  /\ delete_results' = Append(delete_results, outcome)
                  /\ cloud_clusters' = IF outcome = "true"
                                       THEN RemoveFirst(cloud_clusters, name)
                                       ELSE cloud_clusters
                  /\ IF DeleteContinues(outcome)
                     THEN Continue(DeleteLines(name, outcome),
                                   IF DeleteCounted(outcome) THEN deleted_count + 1
                                   ELSE deleted_count)
                     ELSE /\ deleted_count' = deleted_count
                          /\ cl_i' = cl_i
                          /\ out' = out \o DeleteLines(name, outcome)
                                        \o CleanupExcept(outcome).lines
                          /\ pc' = "done"
                          /\ exit_status' = CleanupExcept(outcome).status
    /\ UNCHANGED << command, jenkins_urls, jenkins_url_list, url_i, active_builds, http_gets,
                    fetch_log,
                    connections, list_calls, list_result, cluster_names >>

\* lines 154-174: one iteration of the loop over the names listed
CleanupCluster ==
    /\ UNCHANGED nonClusterVars
    /\ command = "cleanup"
    /\ pc = "loop"
    /\ cl_i <= Len(cluster_names)
    /\ LET name == cluster_names[cl_i]
           last == cl_i = Len(cluster_names)
           Continue(lines, cnt) ==
               /\ deleted_count' = cnt
               /\ cl_i' = cl_i + 1
               /\ out' = IF last THEN out \o lines \o << DeletedLine(cnt) >> ELSE out \o lines
               /\ pc' = IF last THEN "done" ELSE "loop"
               /\ exit_status' = IF last THEN "0" ELSE exit_status
       IN  IF IsManaged(name)
           THEN /\ Continue(<< Line("INFO", "Skipping managed cluster", name, 0) >>, deleted_count)
                /\ UNCHANGED << delete_calls, delete_results, cloud_clusters >>
           ELSE IF ClusterInJenkins(name, active_builds)
           THEN /\ Continue(<< Line("INFO", "Cluster is in use by active build, skipping", name, 0) >>,
                            deleted_count)
                /\ UNCHANGED << delete_calls, delete_results, cloud_clusters >>
           ELSE \E outcome \in DeleteOutcomes :
                  /\ delete_calls' = Append(delete_calls, name)
                  /\ delete_results' = Append(delete_results, outcome)
                  /\ cloud_clusters' = IF outcome = "true"
                                       THEN RemoveFirst(cloud_clusters, name)
                                       ELSE cloud_clusters
                  /\ IF DeleteContinues(outcome)
                     THEN Continue(DeleteLines(name, outcome),
                                   IF DeleteCounted(outcome) THEN deleted_count + 1
                                   ELSE deleted_count)
                     ELSE /\ deleted_count' = deleted_count
                          /\ cl_i' = cl_i
                          /\ out' = out \o DeleteLines(name, outcome)
                                        \o CleanupExcept(outcome).lines
                          /\ pc' = "done"
                          /\ exit_status' = CleanupExcept(outcome).status
    /\ UNCHANGED << command, jenkins_urls, jenkins_url_list, url_i, active_builds, http_gets,
                    fetch_log,
                    connections, list_calls, list_result, cluster_names >>

(***************************************************************************)
(* list_clusters, lines 98-115.                                            *)
(***************************************************************************)
\* lines 108-115: what the handlers of list_clusters print and how the run ends
ListClustersExcept(err) ==
    IF err = "cloud_exc"
    THEN [lines |-> << Line("ERROR", "Failed to list clusters", "", 0) >>, status |-> "1"]
    ELSE IF err = "attr_error"
    THEN [lines |-> NotSupportedLines, status |-> "1"]
    ELSE [lines |-> <<>>, status |-> "raised"]

RECURSIVE NameLines(_)
NameLines(names) ==
    IF Len(names) = 0 THEN <<>>
    ELSE << Line("", "", names[1], 0) >> \o NameLines(Tail(names))

ListClusters ==
    /\ UNCHANGED nonClusterVars
    /\ command = "list"
    /\ pc = "start"
    /\ connections' = connections + 1
    /\ list_calls' = list_calls + 1
    /\ pc' = "done"
    /\ \E outcome \in ListOutcomes :
         /\ list_result' = outcome
         /\ IF outcome = "ok"
            THEN /\ out' = out \o NameLines(cloud_clusters)
                 /\ exit_status' = "0"
            ELSE /\ out' = out \o ListClustersExcept(outcome).lines
                 /\ exit_status' = ListClustersExcept(outcome).status
    /\ UNCHANGED << command, jenkins_urls, jenkins_url_list, url_i, active_builds, http_gets,
                    fetch_log,
                    cloud_clusters, cluster_names, cl_i, deleted_count, delete_calls,
                    delete_results >>

NextCluster ==
    \/ CleanupStart
    \/ FetchEndpoint
    \/ CleanupList
    \/ CleanupCluster
    \/ ListClusters

SpecCluster == InitCluster /\ [][NextCluster]_vars

(***************************************************************************)
(* Part 2: the cleanup of servers, volumes and images.                     *)
(*                                                                         *)
(* A resource descriptor is the snapshot the provider reports at listing   *)
(* time; servers and volumes carry the image attributes with fixed values. *)
(***************************************************************************)
Resource(name, created_at, owner, visibility, is_protected) ==
    [name |-> name, created_at |-> created_at, owner |-> owner,
     visibility |-> visibility, is_protected |-> is_protected]

\* the thresholds and the clock the runs are checked with
DaysInputs == {0, 5}
NowInput == 20
TenantInput == "project-123"

\* resources created 10 days ago, exactly 5 days ago and 1 day ago
PlainPool(prefix) ==
    { Resource(prefix \o "-old", NowInput - 10, "", "private", FALSE),
      Resource(prefix \o "-edge", NowInput - 5, "", "private", FALSE),
      Resource(prefix \o "-new", NowInput - 1, "", "private", FALSE) }

ImagePool ==
    { Resource("image-own", NowInput - 10, TenantInput, "private", FALSE),
      Resource("image-community", NowInput - 5, TenantInput, "community", FALSE),
      Resource("image-shared", NowInput - 10, TenantInput, "shared", FALSE),
      Resource("image-public", NowInput - 10, TenantInput, "public", FALSE),
      Resource("image-protected", NowInput - 10, TenantInput, "private", TRUE),
      Resource("image-foreign", NowInput - 10, "different-project", "private", FALSE),
      Resource("image-new", NowInput - 1, TenantInput, "private", FALSE) }

ResourcePool(kind) ==
    IF kind = "image" THEN ImagePool ELSE PlainPool(kind)

\* the word the provider uses for the kind in its messages
KindWord(kind) ==
    IF kind = "server" THEN "Server" ELSE IF kind = "volume" THEN "Volume" ELSE "Image"

\* what a delete call can produce: a boolean, or a raised error with its message
ResourceDeleteOutcomes(kind, name) ==
    { [ret |-> "true", msg |-> ""], [ret |-> "false", msg |-> ""],
      [ret |-> "raise", msg |-> "Multiple matches found for " \o name],
      [ret |-> "raise", msg |-> "More than one " \o KindWord(kind)
                                 \o " exists with the name '" \o name \o "'"],
      [ret |-> "raise", msg |-> "Unexpected error"] }

\* a variant with an exclusive boundary
PassesAge_Exclusive(r, threshold, clock) ==
    threshold = 0 \/ clock - r.created_at > threshold

\* Filter, age: now - created_at >= threshold; a zero threshold lets every age pass
PassesAge(r, threshold, clock) ==
    threshold = 0 \/ clock - r.created_at >= threshold

\* Filter, ownership (images)
PassesOwnership(r, tenant) == r.owner = tenant

\* a variant that looks at the protection flag only
PassesProtection_FlagOnly(r) == ~r.is_protected

\* Filter, visibility and protection (images)
PassesProtection(r) ==
    /\ ~r.is_protected
    /\ r.visibility \notin {"public", "shared"}

\* Filter: the predicates that apply to the kind, combined with AND
Eligible(kind, r, threshold, clock, tenant) ==
    /\ PassesAge(r, threshold, clock)
    /\ kind = "image" => (PassesOwnership(r, tenant) /\ PassesProtection(r))

RECURSIVE FilterResources(_, _, _, _, _)
FilterResources(kind, rs, threshold, clock, tenant) ==
    IF Len(rs) = 0 THEN <<>>
    ELSE IF Eligible(kind, rs[1], threshold, clock, tenant)
         THEN << rs[1] >> \o FilterResources(kind, Tail(rs), threshold, clock, tenant)
         ELSE FilterResources(kind, Tail(rs), threshold, clock, tenant)

StartsWith(s, prefix) == Len(s) >= Len(prefix) /\ SubSeq(s, 1, Len(prefix)) = prefix

\* a variant that knows the older message shape only
IsDuplicateName_OldShape(msg) == StartsWith(msg, "Multiple matches found for")

\* Deleter: the two message shapes of a duplicate-name error
IsDuplicateName(msg) ==
    \/ StartsWith(msg, "Multiple matches found for")
    \/ StartsWith(msg, "More than one") /\ Contains(msg, "exists with the name")

\* Deleter: the disposition of one delete call
Disposition(outcome) ==
    IF outcome.ret = "true" THEN "deleted"
    ELSE IF outcome.ret = "false" THEN "skipped-failed"
    ELSE IF IsDuplicateName(outcome.msg) THEN "skipped-duplicate-name"
    ELSE "error"

\* Reporter: the line of one disposition
DispositionLine(name, disp) ==
    IF disp = "deleted" THEN Line("INFO", "Removed", name, 0)
    ELSE IF disp = "skipped-failed" THEN Line("WARN", "Failed to remove", name, 0)
    ELSE IF disp = "skipped-duplicate-name" THEN Line("WARN", "Duplicate name, skipping", name, 0)
    ELSE Line("ERROR", "Unexpected error", name, 0)

\* no cluster sub-command runs
ClusterIdle ==
    /\ command = "none"
    /\ pc = "idle"
    /\ jenkins_urls = None
    /\ jenkins_url_list = <<>>
    /\ url_i = 1
    /\ active_builds = <<>>
    /\ http_gets = <<>>
    /\ fetch_log = <<>>
    /\ connections = 0
    /\ cloud_clusters = <<>>
    /\ list_calls = 0
    /\ list_result = "none"
    /\ cluster_names = <<>>
    /\ cl_i = 1
    /\ deleted_count = 0
    /\ delete_calls = <<>>
    /\ delete_results = <<>>
    /\ out = <<>>
    /\ exit_status = "none"

InitResource ==
    /\ ClusterIdle
    /\ RemoveIdle
    /\ VoteIdle
    /\ OthersIdle
    /\ utility \in {"server", "volume", "image"}
    /\ res_pc = "start"
    /\ days \in DaysInputs
    /\ now = NowInput
    /\ tenant_id = TenantInput
    /\ cloud_resources \in SeqsUpTo(ResourcePool(utility), MaxResources)
    /\ candidates = <<>>
    /\ res_i = 1
    /\ n_deleted = 0
    /\ n_skipped = 0
    /\ res_delete_calls = <<>>
    /\ res_delete_results = <<>>
    /\ res_out = <<>>
    /\ res_exit = "none"

\* Lister and Filter: list the resources of the kind and keep the eligible ones
ResourceList ==
    /\ UNCHANGED nonResourceVars
    /\ utility \in {"server", "volume", "image"}
    /\ res_pc = "start"
    /\ \E listing \in {"ok", "error"} :
         IF listing = "ok"
         THEN LET kept == FilterResources(utility, cloud_resources, days, now, tenant_id) IN
              /\ candidates' = kept
              /\ res_pc' = IF Len(kept) = 0 THEN "done" ELSE "loop"
              /\ res_exit' = IF Len(kept) = 0 THEN "0" ELSE res_exit
              /\ res_out' = res_out
         ELSE /\ candidates' = candidates
              /\ res_pc' = "done"
              /\ res_exit' = "1"
              /\ res_out' = Append(res_out, Line("ERROR", "Failed to list", utility, 0))
    /\ UNCHANGED << utility, days, now, tenant_id, cloud_resources, res_i, n_deleted,
                    n_skipped, res_delete_calls, res_delete_results >>

\* Deleter and Reporter: one delete call for the next candidate
ResourceDelete ==
    /\ UNCHANGED nonResourceVars
    /\ res_pc = "loop"
    /\ res_i <= Len(candidates)
    /\ LET r == candidates[res_i]
           last == res_i = Len(candidates)
       IN  \E outcome \in ResourceDeleteOutcomes(utility, r.name) :
             LET disp == Disposition(outcome) IN
             /\ res_delete_calls' = Append(res_delete_calls, r)
             /\ res_delete_results' = Append(res_delete_results, outcome)
             /\ res_out' = Append(res_out, DispositionLine(r.name, disp))
             /\ n_deleted' = IF disp = "deleted" THEN n_deleted + 1 ELSE n_deleted
             /\ n_skipped' = IF disp \in {"skipped-failed", "skipped-duplicate-name"}
                             THEN n_skipped + 1 ELSE n_skipped
             /\ cloud_resources' = IF disp = "deleted"
                                   THEN RemoveFirst(cloud_resources, r)
                                   ELSE cloud_resources
             /\ IF disp = "error"
                THEN /\ res_pc' = "done"
                     /\ res_exit' = "raised"
                     /\ res_i' = res_i
                ELSE /\ res_pc' = IF last THEN "done" ELSE "loop"
                     /\ res_exit' = IF last THEN "0" ELSE res_exit
                     /\ res_i' = res_i + 1
    /\ UNCHANGED << utility, days, now, tenant_id, candidates >>

NextResource ==
    \/ ResourceList
    \/ ResourceDelete

SpecResource == InitResource /\ [][NextResource]_vars

(***************************************************************************)
(* Part 3: the single-resource remove of a server or a volume.             *)
(*                                                                         *)
(* Given one identifier: look the resource up, end with status 1 when it   *)
(* is absent, skip silently when it is younger than the minimum age, and   *)
(* delete it otherwise.  Times are in minutes.                             *)
(***************************************************************************)
\* the minimum ages the runs are checked with
MinutesInputs == {0, 5, 10}

\* the identifiers given: the one of the resource, and one nothing answers to
RemoveIdents(kind) ==
    IF kind = "server" THEN {"test-server", "nonexistent-server"}
    ELSE {"volume-123", "nonexistent-volume"}

\* the resource of the kind, created 10, 5, 4 and 1 minutes ago
RemovePool(kind) ==
    { Found(kind \o "-123", "test-" \o kind, NowInput - age) : age \in {10, 5, 4, 1} }

\* the attribute the lookup and the delete call go by: name for servers, id for volumes
Handle(kind, r) == IF kind = "server" THEN r.name ELSE r.id

\* the lookup: the first resource the identifier answers to, or nothing
RECURSIVE Lookup(_, _, _)
Lookup(kind, cloud, ident) ==
    IF Len(cloud) = 0 THEN NotFound
    ELSE IF Handle(kind, cloud[1]) = ident THEN cloud[1]
    ELSE Lookup(kind, Tail(cloud), ident)

\* a variant that reports the absent resource and ends normally
NotFoundExit_Zero(kind, ident) ==
    [lines |-> << Line("ERROR", "not found", ident, 0) >>, status |-> "0"]

\* the fatal "not found" ending
NotFoundExit(kind, ident) ==
    [lines |-> << Line("ERROR", "not found", ident, 0) >>, status |-> "1"]

\* a variant that also skips a resource of exactly the minimum age
TooYoung_Inclusive(r, min_age, clock) ==
    min_age > 0 /\ clock - r.created_at <= min_age

\* the guard against deleting a resource still being provisioned
TooYoung(r, min_age, clock) ==
    min_age > 0 /\ clock - r.created_at < min_age

\* what the delete call of a remove can produce
RemoveDeleteOutcomes == {"true", "false", "raise"}

InitRemove ==
    /\ ClusterIdle
    /\ ResourceIdle
    /\ VoteIdle
    /\ OthersIdle
    /\ rm_kind \in {"server", "volume"}
    /\ rm_pc = "start"
    /\ rm_ident \in RemoveIdents(rm_kind)
    /\ minutes \in MinutesInputs
    /\ rm_now = NowInput
    /\ rm_cloud \in SeqsUpTo(RemovePool(rm_kind), 1)
    /\ rm_found = NotFound
    /\ rm_delete_calls = <<>>
    /\ rm_delete_results = <<>>
    /\ rm_out = <<>>
    /\ rm_exit = "none"

\* look the identifier up; an absent resource ends the run
RemoveLookup ==
    /\ UNCHANGED nonRemoveVars
    /\ rm_pc = "start"
    /\ LET r == Lookup(rm_kind, rm_cloud, rm_ident)
           ending == NotFoundExit(rm_kind, rm_ident)
       IN  /\ rm_found' = r
           /\ IF r.found
              THEN /\ rm_pc' = "found"
                   /\ rm_out' = rm_out
                   /\ rm_exit' = rm_exit
              ELSE /\ rm_pc' = "done"
                   /\ rm_out' = rm_out \o ending.lines
                   /\ rm_exit' = ending.status
    /\ UNCHANGED << rm_kind, rm_ident, minutes, rm_now, rm_cloud,
                    rm_delete_calls, rm_delete_results >>

\* the age guard, then the delete call
RemoveDelete ==
    /\ UNCHANGED nonRemoveVars
    /\ rm_pc = "found"
    /\ IF TooYoung(rm_found, minutes, rm_now)
       THEN /\ rm_exit' = "0"
            /\ UNCHANGED << rm_cloud, rm_delete_calls, rm_delete_results >>
       ELSE \E outcome \in RemoveDeleteOutcomes :
              /\ rm_delete_calls' = Append(rm_delete_calls, Handle(rm_kind, rm_found))
              /\ rm_delete_results' = Append(rm_delete_results, outcome)
              /\ rm_cloud' = IF outcome = "true"
                             THEN RemoveFirst(rm_cloud, rm_found)
                             ELSE rm_cloud
              /\ rm_exit' = IF outcome = "raise" THEN "raised" ELSE "0"
    /\ rm_pc' = "done"
    /\ UNCHANGED << rm_kind, rm_ident, minutes, rm_now, rm_found, rm_out >>

NextRemove ==
    \/ RemoveLookup
    \/ RemoveDelete

SpecRemove == InitRemove /\ [][NextRemove]_vars

(***************************************************************************)
(* Part 4: check-votes, the vote tally on a change of an INFO.yaml file.   *)
(***************************************************************************)
\* one entry of the committers list of a file
Committer(name) == [id |-> name, github_id |-> name \o "-gh"]

CommitterNamePool == {"a", "b"}

\* the committers lists a file can hold, duplicates included
CommitterLists ==
    { [i \in 1..Len(names) |-> Committer(names[i])] :
        names \in SeqsUpTo(CommitterNamePool, MaxCommitters) \cup {<< "a", "b", "c", "d" >>} }

\* one file on disk
YamlFile(path, committers) == [path |-> path, committers |-> committers]

\* one reviewer of the Gerrit change with the Code-Review value
Review(username, code_review) == [username |-> username, code_review |-> code_review]

\* answers of changes/<n>/reviewers
ReviewerAnswers ==
    { <<>>,
      << Review("a", "+1") >>,
      << Review("a", "+2"), Review("b", "+1") >>,
      << Review("a", "-1"), Review("b", "+1") >>,
      << Review("x", "+2") >>,
      << Review("a", " 0"), Review("x", "+1") >> }

\* answers of prvotes: the logins that approved the pull request
GithubVoteAnswers ==
    { <<>>, << "a-gh" >>, << "a-gh", "b-gh" >>, << "x-gh" >>, << "a" >> }

\* what yaml.safe_load does with the file
YamlOutcomes == {"ok", "yaml_error"}

\* with open(info_file): the committers of the first file at the path
RECURSIVE CommitterInfo(_, _)
CommitterInfo(files, path) ==
    IF Len(files) = 0 THEN <<>>
    ELSE IF files[1].path = path THEN files[1].committers
    ELSE CommitterInfo(Tail(files), path)

\* the usernames of the reviewers whose Code-Review holds "+1" or "+2"
RECURSIVE ApprovingUsers(_)
ApprovingUsers(changes) ==
    IF Len(changes) = 0 THEN <<>>
    ELSE LET line == << changes[1].username, changes[1].code_review >> IN
         (IF Contains(line[2], "+1") \/ Contains(line[2], "+2")
          THEN << line[1] >> ELSE <<>>) \o ApprovingUsers(Tail(changes))

\* committer_info[count][id] of every entry, in file order
CommitterIds(committer_info, id) ==
    [count \in 1..Len(committer_info) |-> committer_info[count][id]]

\* item in info_change
InList(item, list) == \E i \in 1..Len(list) : list[i] = item

HaveVoted(info_committers, info_change) ==
    LET voted(item) == InList(item, info_change) IN SelectSeq(info_committers, voted)

HaveNotVoted(info_committers, info_change) ==
    LET absent(item) == ~InList(item, info_change) IN SelectSeq(info_committers, absent)

\* a variant that asks for more than half
MajorityReached_Strict(have_voted_length, committer_length) ==
    2 * have_voted_length > committer_length

\* have_voted_length / committer_length >= 0.5, for a positive committer_length
MajorityReached(have_voted_length, committer_length) ==
    2 * have_voted_length >= committer_length

\* a variant that recurses until a stage fails
EscalationDone_Never(counter) == FALSE

\* majority_of_committers == 2
EscalationDone(counter) == counter = 2

\* a variant that takes a given path for a TSC file even when it is empty
TscGiven_NotNone(path) == ~path.none

\* if tsc:
TscGiven(path) == Truthy(path)

\* "if have_voted_length == 0", taken as never true
NoOneVoted_Never(have_voted_length) == FALSE

\* "if have_voted_length == 0": the stage logs "No one has voted:" and exits 1
NoOneVoted(have_voted_length) == have_voted_length = 0

\* "if have_voted_length != 0": the guard around the division
SomeoneVoted(have_voted_length) == have_voted_length # 0

\* one call of main: the file, the identifiers and approvers tallied, the outcome
Stage(file, committers, approvers, outcome) ==
    [file |-> file, committers |-> committers, approvers |-> approvers,
     outcome |-> outcome]

InitVotes ==
    /\ ClusterIdle
    /\ ResourceIdle
    /\ RemoveIdle
    /\ OthersIdle
    /\ vt_pc = "main"
    /\ info_file = "INFO.yaml"
    /\ tsc \in {None, Some(""), Some("TSC.yaml")}
    /\ github_repo \in {None, Some("test")}
    /\ yaml_files \in
         { << YamlFile("INFO.yaml", c) >> \o
           (IF Truthy(tsc) THEN << YamlFile(tsc.val, t) >> ELSE <<>>) :
             c \in CommitterLists,
             t \in (IF Truthy(tsc) THEN CommitterLists ELSE {<<>>}) }
    /\ reviewers \in (IF Truthy(github_repo) THEN {<<>>} ELSE ReviewerAnswers)
    /\ githubvotes \in (IF Truthy(github_repo) THEN GithubVoteAnswers ELSE {<<>>})
    /\ majority_of_committers = 0
    /\ stages = <<>>
    /\ divisions = <<>>
    /\ vt_out = <<>>
    /\ vt_exit = "none"

\* the lines of the tally
TallyLines(committer_length, have_voted_length, have_not_voted_length) ==
    << Line("INFO", "Number of Committers:", "", committer_length),
       Line("INFO", "Committers that have voted:", "", have_voted_length),
       Line("INFO", "Committers that have not voted:", "", have_not_voted_length) >>

\* one call of main, up to its return, its exit or its recursive call
Main ==
    /\ UNCHANGED nonVoteVars
    /\ vt_pc = "main"
    /\ \E loaded \in YamlOutcomes :
         IF loaded = "yaml_error"
         THEN \* log.error(exc), then info_data is read unassigned
              /\ stages' = Append(stages, Stage(info_file, <<>>, <<>>, "raised"))
              /\ vt_out' = Append(vt_out, Line("ERROR", "YAMLError", info_file, 0))
              /\ vt_exit' = "raised"
              /\ vt_pc' = "done"
              /\ UNCHANGED << info_file, majority_of_committers, divisions >>
         ELSE LET committer_info == CommitterInfo(yaml_files, info_file)
                  id == IF Truthy(github_repo) THEN "github_id" ELSE "id"
                  info_change == IF Truthy(github_repo) THEN githubvotes
                                 ELSE ApprovingUsers(reviewers)
                  info_committers == CommitterIds(committer_info, id)
                  have_not_voted_length == Len(HaveNotVoted(info_committers, info_change))
                  have_voted_length == Len(HaveVoted(info_committers, info_change))
                  committer_length == Len(info_committers)
                  tally == TallyLines(committer_length, have_voted_length,
                                      have_not_voted_length)
                  counter == majority_of_committers + 1
                  divides == /\ ~NoOneVoted(have_voted_length)
                             /\ SomeoneVoted(have_voted_length)
              IN  /\ divisions' =
                       IF divides
                       THEN Append(divisions, [num |-> have_voted_length,
                                               den |-> committer_length])
                       ELSE divisions
                  /\ IF NoOneVoted(have_voted_length)
                     THEN /\ stages' = Append(stages, Stage(info_file, info_committers,
                                                            info_change, "exit1"))
                          /\ vt_out' = vt_out \o tally \o
                                         << Line("INFO", "No one has voted:", "", 0) >>
                          /\ vt_exit' = "1"
                          /\ vt_pc' = "done"
                          /\ UNCHANGED << info_file, majority_of_committers >>
                     ELSE IF ~SomeoneVoted(have_voted_length)
                     THEN \* neither test is taken: main returns
                          /\ stages' = Append(stages, Stage(info_file, info_committers,
                                                            info_change, "returned"))
                          /\ vt_out' = vt_out \o tally
                          /\ vt_exit' = "0"
                          /\ vt_pc' = "done"
                          /\ UNCHANGED << info_file, majority_of_committers >>
                     ELSE IF ~MajorityReached(have_voted_length, committer_length)
                     THEN /\ stages' = Append(stages, Stage(info_file, info_committers,
                                                            info_change, "exit1"))
                          /\ vt_out' = vt_out \o tally \o
                                         << Line("INFO", "majority not yet reached", "", 0) >>
                          /\ vt_exit' = "1"
                          /\ vt_pc' = "done"
                          /\ UNCHANGED << info_file, majority_of_committers >>
                     ELSE /\ stages' = Append(stages, Stage(info_file, info_committers,
                                                            info_change, "passed"))
                          /\ IF ~TscGiven(tsc)
                             THEN /\ vt_out' = vt_out \o tally \o
                                         << Line("INFO", "Majority committer vote reached", "", 0) >>
                                  /\ vt_exit' = "0"
                                  /\ vt_pc' = "done"
                                  /\ UNCHANGED << info_file, majority_of_committers >>
                             ELSE /\ info_file' = tsc.val
                                  /\ majority_of_committers' = counter
                                  /\ IF EscalationDone(counter)
                                     THEN /\ vt_out' = vt_out \o tally \o
                                                << Line("INFO", "Majority committer vote reached", "", 0),
                                                   Line("INFO", "Need majority of tsc", "", 0),
                                                   Line("INFO", "TSC majority reached auto merging commit", "", 0) >>
                                          /\ vt_exit' = "0"
                                          /\ vt_pc' = "done"
                                     ELSE /\ vt_out' = vt_out \o tally \o
                                                << Line("INFO", "Majority committer vote reached", "", 0),
                                                   Line("INFO", "Need majority of tsc", "", 0) >>
                                          /\ vt_exit' = vt_exit
                                          /\ vt_pc' = "main"
    /\ UNCHANGED << tsc, github_repo, yaml_files, reviewers, githubvotes >>

NextVotes == Main

SpecVotes == InitVotes /\ [][NextVotes]_vars

\* check-votes runs to its end: a call of main that is due is made
SpecVotesFair == SpecVotes /\ WF_vars(Main)

(***************************************************************************)
(* Part 5: lfidapi.py, the match of a group to an INFO file and the        *)
(* creation of a group.                                                    *)
(***************************************************************************)

\* the characters of user names, in code point order
CodePoints == "-0123456789ABCDEFGHIJKLMNOPQRSTUVWXYZ_abcdefghijklmnopqrstuvwxyz"

\* the place of a character in the order
Ord(c) == CHOOSE i \in 1..Len(CodePoints) : CharAt(CodePoints, i) = c

\* a < b as Python compares two str
RECURSIVE StrLess(_, _)
StrLess(a, b) ==
    IF a = "" THEN b # ""
    ELSE IF b = "" THEN FALSE
    ELSE IF CharAt(a, 1) = CharAt(b, 1)
         THEN StrLess(SubSeq(a, 2, Len(a)), SubSeq(b, 2, Len(b)))
         ELSE Ord(CharAt(a, 1)) < Ord(CharAt(b, 1))

\* the sorted list with x put in its place, or left alone when it holds x
RECURSIVE InsertSorted(_, _)
InsertSorted(sorted, x) ==
    IF sorted = <<>> THEN << x >>
    ELSE IF Head(sorted) = x THEN sorted
    ELSE IF StrLess(x, Head(sorted)) THEN << x >> \o sorted
    ELSE << Head(sorted) >> \o InsertSorted(Tail(sorted), x)

\* sorted(set(list))
RECURSIVE SortedSet(_)
SortedSet(list) ==
    IF list = <<>> THEN <<>>
    ELSE InsertSorted(SortedSet(Tail(list)), Head(list))

\* the account the LDAP match leaves alone
ServiceAccount == "lfservices_releng"

\* the user names of the runs
UserPool == {"alice", "Bob", "carol", ServiceAccount}

\* the name a user goes by in the mode of the run
IdOf(name, org) == IF Truthy(org) THEN Committer(name).github_id ELSE Committer(name).id

\* the committers lists an INFO file can hold
InfoLists ==
    { [i \in 1..Len(names) |-> Committer(names[i])] : names \in SeqsUpTo(UserPool, MaxCommitters) }

\* the member lists a group can hold: no user twice
MemberLists(org) ==
    { [i \in 1..Len(names) |-> IdOf(names[i], org)] :
        names \in { q \in SeqsUpTo(UserPool, MaxCommitters) :
                      \A i, j \in 1..Len(q) : q[i] = q[j] => i = j } }

\* the status codes the API answers
StatusAnswers == {200, 403}

\* the status codes of the existence check
ExistsAnswers == {200, 404}

\* one request that changes the server
ApiCall(method, user) == [method |-> method, user |-> user]

\* check_response_code raises, taken as never raising
CheckResponseCode_Lenient(status_code) == FALSE

\* check_response_code raises HTTPError
CheckResponseCode(status_code) == status_code # 200

\* the existence test of helper_create_group, taken as never true
GroupExists_Never(response_code) == FALSE

\* the existence test of helper_create_group
GroupExists(response_code) == response_code = 200

\* "noop is False", taken as always true
NoopIsFalse_Always(flag) == TRUE

\* "noop is False"
NoopIsFalse(flag) == flag = FALSE

\* the removal of lfservices_releng from all_users, LDAP mode only
StripServiceAccount(users, org) ==
    IF ~Truthy(org) /\ InList(ServiceAccount, users)
    THEN RemoveFirst(users, ServiceAccount)
    ELSE users

\* [item for item in ldap if item not in info]
RemovedByPatch(ldap, info) ==
    SelectSeq(ldap, LAMBDA item : ~InList(item, info))

\* [item for item in info], members of the group included
AddedByPatch_All(info, ldap) == info

\* [item for item in info if item not in ldap]
AddedByPatch(info, ldap) ==
    SelectSeq(info, LAMBDA item : ~InList(item, ldap))

\* what the server holds after a request answered with status_code
MembersAfter(members, call, status_code) ==
    IF status_code # 200 THEN members
    ELSE IF call.method = "DELETE" THEN RemoveFirst(members, call.user)
    ELSE IF InList(call.user, members) THEN members
    ELSE Append(members, call.user)

InitLfid ==
    /\ ClusterIdle
    /\ ResourceIdle
    /\ RemoveIdle
    /\ VoteIdle
    /\ SyncIdle
    /\ lf_op \in {"match", "create_group"}
    /\ lf_pc = "start"
    /\ githuborg \in (IF lf_op = "match" THEN {None, Some("org")} ELSE {None})
    /\ noop \in (IF lf_op = "match" THEN BOOLEAN ELSE {FALSE})
    /\ lf_info \in (IF lf_op = "match" THEN InfoLists ELSE {<<>>})
    /\ group_status \in (IF Truthy(githuborg) THEN {200} ELSE ExistsAnswers)
    /\ group_members \in
         (IF lf_op = "match" /\ group_status = 200 THEN MemberLists(githuborg) ELSE {<<>>})
    /\ ldap_committers = <<>>
    /\ all_users = <<>>
    /\ lf_i = 1
    /\ api_calls = <<>>
    /\ api_statuses = <<>>
    /\ lf_out = <<>>
    /\ lf_exit = "none"

\* the lines that list the users
RECURSIVE UserLines(_)
UserLines(users) ==
    IF users = <<>> THEN <<>>
    ELSE << Line("", "  user", Head(users), 0) >> \o UserLines(Tail(users))

\* helper_match_ldap_to_info up to its loop: the INFO file, the members, all_users
MatchStart ==
    /\ UNCHANGED nonLfidVars
    /\ lf_op = "match"
    /\ lf_pc = "start"
    /\ \E loaded \in YamlOutcomes, listed \in StatusAnswers :
         IF ~Truthy(githuborg) /\ group_status # 200
         THEN \* helper_search_members: the group does not exist
              /\ lf_out' = Append(lf_out, Line("ERROR", "does not exists exiting...", "",
                                               group_status))
              /\ lf_exit' = "1"
              /\ lf_pc' = "done"
              /\ UNCHANGED << ldap_committers, all_users >>
         ELSE IF ~Truthy(githuborg) /\ CheckResponseCode(listed)
         THEN \* helper_search_members: the members request failed
              /\ lf_out' = Append(lf_out, Line("ERROR", "Authorization failed", "", listed))
              /\ lf_exit' = "1"
              /\ lf_pc' = "done"
              /\ UNCHANGED << ldap_committers, all_users >>
         ELSE IF loaded = "yaml_error"
         THEN \* print(exc), then info_data is read unassigned
              /\ lf_out' = Append(lf_out, Line("", "YAMLError", "", 0))
              /\ lf_exit' = "raised"
              /\ lf_pc' = "done"
              /\ UNCHANGED << ldap_committers, all_users >>
         ELSE LET id == IF Truthy(githuborg) THEN "github_id" ELSE "id"
                  info_committers == CommitterIds(lf_info, id)
                  users == SortedSet(StripServiceAccount(group_members \o info_committers,
                                                         githuborg))
              IN  /\ ldap_committers' = group_members
                  /\ all_users' = users
                  /\ lf_out' = lf_out \o << Line("", "All users in org group:", "", 0) >>
                                      \o UserLines(users)
                  /\ lf_exit' = IF users = <<>> THEN "0" ELSE "none"
                  /\ lf_pc' = IF users = <<>> THEN "done" ELSE "loop"
    /\ UNCHANGED << lf_op, githuborg, noop, lf_info, group_status, group_members, lf_i,
                    api_calls, api_statuses >>

\* one pass of the loop over all_users
MatchUser ==
    /\ UNCHANGED nonLfidVars
    /\ lf_op = "match"
    /\ lf_pc = "loop"
    /\ lf_i <= Len(all_users)
    /\ LET user == all_users[lf_i]
           id == IF Truthy(githuborg) THEN "github_id" ELSE "id"
           info_committers == CommitterIds(lf_info, id)
           removes == InList(user, RemovedByPatch(ldap_committers, info_committers))
           adds == InList(user, AddedByPatch(info_committers, ldap_committers))
           removal == << Line("", "scheduled for removal", "", 0) >>
           addition == << Line("", "scheduled for addition", "", 0) >>
           scheduled == (IF removes THEN removal ELSE <<>>) \o
                        (IF adds THEN addition ELSE <<>>)
           last == lf_i = Len(all_users)
       IN  IF ~(removes \/ adds) \/ ~NoopIsFalse(noop)
           THEN /\ lf_out' = lf_out \o scheduled
                /\ lf_i' = lf_i + 1
                /\ lf_exit' = IF last THEN "0" ELSE "none"
                /\ lf_pc' = IF last THEN "done" ELSE "loop"
                /\ UNCHANGED << api_calls, api_statuses, group_members >>
           ELSE \E status_code \in (IF Truthy(githuborg) THEN {200} ELSE StatusAnswers) :
                  LET call == ApiCall(IF removes THEN "DELETE" ELSE "PUT", user)
                      word == IF removes THEN "Removing user from group"
                              ELSE "Adding user to group"
                      failed == ~Truthy(githuborg) /\ CheckResponseCode(status_code)
                  IN  /\ api_calls' = Append(api_calls, call)
                      /\ api_statuses' = Append(api_statuses, status_code)
                      /\ group_members' = MembersAfter(group_members, call, status_code)
                      /\ lf_out' = lf_out \o scheduled \o << Line("", word, "", 0) >> \o
                                     (IF failed
                                      THEN << Line("ERROR", "Authorization failed", "",
                                                   status_code) >>
                                      ELSE <<>>)
                      /\ lf_i' = IF failed THEN lf_i ELSE lf_i + 1
                      /\ lf_exit' = IF failed THEN "1" ELSE IF last THEN "0" ELSE "none"
                      /\ lf_pc' = IF failed \/ last THEN "done" ELSE "loop"
    /\ UNCHANGED << lf_op, githuborg, noop, lf_info, group_status, ldap_committers,
                    all_users >>

\* helper_create_group
CreateGroup ==
    /\ UNCHANGED nonLfidVars
    /\ lf_op = "create_group"
    /\ lf_pc = "start"
    /\ IF GroupExists(group_status)
       THEN /\ lf_out' = Append(lf_out, Line("ERROR", "already exists. Exiting...", "", 0))
            /\ lf_exit' = "0"
            /\ UNCHANGED << api_calls, api_statuses >>
       ELSE \E status_code \in StatusAnswers :
              /\ api_calls' = Append(api_calls, ApiCall("POST", ""))
              /\ api_statuses' = Append(api_statuses, status_code)
              /\ lf_out' = lf_out \o << Line("", "Creating group", "", 0) >> \o
                             (IF CheckResponseCode(status_code)
                              THEN << Line("ERROR", "Authorization failed", "", status_code) >>
                              ELSE <<>>)
              /\ lf_exit' = IF CheckResponseCode(status_code) THEN "1" ELSE "0"
    /\ lf_pc' = "done"
    /\ UNCHANGED << lf_op, githuborg, noop, lf_info, group_status, group_members,
                    ldap_committers, all_users, lf_i >>

NextLfid == MatchStart \/ MatchUser \/ CreateGroup

SpecLfid == InitLfid /\ [][NextLfid]_vars

(***************************************************************************)
(* Part 6: cli/infofile.py, sync-committers.  The text of readldap holds   *)
(* both sides of a merge ("HEAD" and "35dec37") between conflict markers:  *)
(* a build runs one of the two sides, or the text as it stands, which      *)
(* does not compile.                                                       *)
(***************************************************************************)

\* the builds of sync-committers
SyncBuilds == {"conflict", "HEAD", "35dec37"}

\* one committer of the LDAP file; a key the record lacks is None
LdapEntry(id, name, email) ==
    [id |-> id, name |-> name, email |-> email,
     company |-> Some("LF"), timezone |-> Some("UTC")]

\* the committers an LDAP file can list
LdapPool ==
    { LdapEntry("a", Some("Ann"), Some("ann@example.org")),
      LdapEntry("a", Some("Anna"), None),
      LdapEntry("a", None, Some("a@example.org")),
      LdapEntry("b", Some("Ben"), Some("ben@example.org")) }

\* the committers lists of an LDAP file
LdapLists == SeqsUpTo(LdapPool, MaxCommitters)

\* one committer of the INFO file
InfoEntry(name, company, email, id, timezone) ==
    [name |-> name, company |-> company, email |-> email, id |-> id,
     timezone |-> timezone]

\* the committers an INFO file can list before the run
InfoPool ==
    { InfoEntry(Some("Ann"), Some("LF"), Some("ann@example.org"), "a", Some("UTC")),
      InfoEntry(Some("Cy"), Some("LF"), Some("cy@example.org"), "c", Some("UTC")) }

\* the ids a run can be given
SyncIds == {"a", "b"}

\* the first loop of readldap finds the id, taken as never finding it
AlreadyCommitter_Never(committer_info, id) == FALSE

\* the first loop of readldap finds the id among the INFO committers
AlreadyCommitter(committer_info, id) ==
    \E idx \in 1..Len(committer_info) : committer_info[idx].id = id

\* the records of the LDAP file with the id, in file order
LdapMatches(committer_info_ldap, id) ==
    SelectSeq(committer_info_ldap, LAMBDA rec : rec.id = id)

\* record[key] raises KeyError
LacksKey(rec) ==
    \/ rec.name = None
    \/ rec.email = None
    \/ rec.company = None
    \/ rec.timezone = None

\* the entry built from the locals the second loop left
UserEntry(rec) == InfoEntry(rec.name, rec.company, rec.email, rec.id, rec.timezone)

\* what readldap does after the first loop: "raised", "exit0", "exit1" or "write"
LdapVerdict(build, matches) ==
    IF build = "HEAD"
    THEN IF \E k \in 1..Len(matches) : LacksKey(matches[k]) THEN "raised"
         ELSE IF matches = <<>> THEN "exit0"
         ELSE "write"
    ELSE IF matches = <<>> THEN "raised"
         ELSE IF matches[Len(matches)].name = None THEN "exit1"
         ELSE "write"

InitSync ==
    /\ ClusterIdle
    /\ ResourceIdle
    /\ RemoveIdle
    /\ VoteIdle
    /\ LfidIdle
    /\ sy_pc = "start"
    /\ sy_build \in SyncBuilds
    /\ sy_id \in SyncIds
    /\ sy_repo \in {None, Some("releng/tools")}
    /\ info_data \in [committers : SeqsUpTo(InfoPool, MaxCommitters),
                      repositories : {<<>>, << Some("old/repo") >>}]
    /\ ldap_data \in LdapLists
    /\ sy_writes = <<>>
    /\ sy_out = <<>>
    /\ sy_exit = "none"

\* sync_committers, from its first line to its return or exit
SyncCommitters ==
    /\ UNCHANGED nonSyncVars
    /\ sy_pc = "start"
    /\ sy_pc' = "done"
    /\ \E loaded \in YamlOutcomes, reread \in YamlOutcomes :
         LET warned == IF loaded = "yaml_error"
                       THEN << Line("", "YAMLError", "", 0) >> ELSE <<>>
             matches == LdapMatches(ldap_data, sy_id)
             verdict == LdapVerdict(sy_build, matches)
             user == UserEntry(matches[Len(matches)])
             written == [committers |-> Append(info_data.committers, user),
                         repositories |-> [info_data.repositories EXCEPT ![1] = sy_repo]]
         IN  IF sy_build = "conflict"
             THEN \* the module does not compile: the command never starts
                  /\ sy_exit' = "raised"
                  /\ UNCHANGED << info_data, sy_writes, sy_out >>
             ELSE IF loaded = "yaml_error" /\ reread = "yaml_error"
             THEN \* print(exc), then ryaml.load raises on the same text
                  /\ sy_out' = warned
                  /\ sy_exit' = "raised"
                  /\ UNCHANGED << info_data, sy_writes >>
             ELSE IF AlreadyCommitter(info_data.committers, sy_id)
             THEN /\ sy_out' = warned \o << Line(IF sy_build = "HEAD" THEN "" ELSE "INFO",
                                                 "is already in", sy_id, 0) >>
                  /\ sy_exit' = "0"
                  /\ UNCHANGED << info_data, sy_writes >>
             ELSE IF verdict = "raised"
             THEN /\ sy_out' = warned
                  /\ sy_exit' = "raised"
                  /\ UNCHANGED << info_data, sy_writes >>
             ELSE IF verdict = "exit0"
             THEN /\ sy_out' = warned \o << Line("", "does not exist in", sy_id, 0) >>
                  /\ sy_exit' = "0"
                  /\ UNCHANGED << info_data, sy_writes >>
             ELSE IF verdict = "exit1"
             THEN /\ sy_out' = warned \o << Line("ERROR", "does not exist in", sy_id, 0) >>
                  /\ sy_exit' = "1"
                  /\ UNCHANGED << info_data, sy_writes >>
             ELSE IF info_data.repositories = <<>>
             THEN \* info_data["repositories"][0] = repo raises IndexError
                  /\ sy_out' = warned
                  /\ sy_exit' = "raised"
                  /\ UNCHANGED << info_data, sy_writes >>
             ELSE /\ info_data' = written
                  /\ sy_writes' = Append(sy_writes, written)
                  /\ sy_out' = warned \o
                               (IF sy_build = "HEAD" THEN <<>>
                                ELSE << Line("INFO", "Updated", sy_id, 0) >>)
                  /\ sy_exit' = "0"
    /\ UNCHANGED << sy_build, sy_id, sy_repo, ldap_data >>

NextSync == SyncCommitters

SpecSync == InitSync /\ [][NextSync]_vars

\* one run of any of the utilities
Init ==
    InitCluster \/ InitResource \/ InitRemove \/ InitVotes \/ InitLfid \/ InitSync

Next ==
    \/ CleanupStart
    \/ FetchEndpoint
    \/ CleanupList
    \/ CleanupCluster
    \/ ListClusters
    \/ ResourceList
    \/ ResourceDelete
    \/ RemoveLookup
    \/ RemoveDelete
    \/ Main
    \/ MatchStart
    \/ MatchUser
    \/ CreateGroup
    \/ SyncCommitters

Spec == Init /\ [][Next]_vars

(***************************************************************************)
(* Properties of cluster cleanup (openstack/cluster.py).                   *)
(***************************************************************************)
WhiteSpaceOnly(s) == \A i \in 1..Len(s) : SubSeq(s, i, i) \in {" ", "\t", "\n"}

\* the cleanup run was given no build-system endpoint
NoEndpointsGiven == command = "cleanup" /\ (jenkins_urls.none \/ WhiteSpaceOnly(jenkins_urls.val))

\* C1: cluster cleanup called with no build-system endpoint (jenkins_urls None, empty or
\* whitespace only) prints one WARN line and returns normally; it queries no build
\* system, opens no cloud connection, lists nothing and issues no delete call, whatever
\* clusters the cloud holds.
C1_NoEndpointsNoAction ==
    NoEndpointsGiven =>
        /\ http_gets = <<>>
        /\ connections = 0
        /\ list_calls = 0
        /\ delete_calls = <<>>
        /\ pc \in {"start", "done"}
        /\ pc = "start" => (out = <<>> /\ exit_status = "none")
        /\ pc = "done" =>
             /\ exit_status = "0"
             /\ Len(out) = 1
             /\ out[1].sev = "WARN"

C1_Witness ==
    /\ NoEndpointsGiven
    /\ jenkins_urls = Some("   ")
    /\ pc = "done"
    /\ \E i \in DOMAIN cloud_clusters : cloud_clusters[i] = "orphaned-1"

HasManagedMarker(name) ==
    Contains(name, "-managed-prod-k8s-") \/ Contains(name, "-managed-test-k8s-")

\* C2: in every cluster cleanup run, whatever the listed clusters and the active build
\* tokens, no delete call is made for a cluster whose name contains '-managed-prod-k8s-'
\* or '-managed-test-k8s-'.
C2_ManagedNeverDeleted ==
    \A i \in DOMAIN delete_calls : ~HasManagedMarker(delete_calls[i])

C2_Witness ==
    /\ pc = "done"
    /\ exit_status = "0"
    /\ cluster_names = << "p-managed-test-k8s-c", "orphaned-1" >>
    /\ delete_calls = << "orphaned-1" >>

\* the name occurs in the tokens joined with single spaces
InJoinedTokens(name, tokens) == Contains(Join(tokens, " "), name)

\* C3: in every cluster cleanup run no delete call is made for a cluster whose name occurs
\* as a substring of the active build tokens collected for the run, joined with spaces.
C3_InUseNeverDeleted ==
    \A i \in DOMAIN delete_calls : ~InJoinedTokens(delete_calls[i], active_builds)

C3_Witness ==
    /\ pc = "done"
    /\ exit_status = "0"
    /\ active_builds = << "production-active-job-123" >>
    /\ \E i \in DOMAIN cluster_names : cluster_names[i] = "active-job-123"
    /\ delete_calls = << "orphaned-1" >>

\* the listed names that pass both filter predicates, in list order
RECURSIVE PassingNames(_, _)
PassingNames(names, tokens) ==
    IF Len(names) = 0 THEN <<>>
    ELSE IF ~HasManagedMarker(names[1]) /\ ~InJoinedTokens(names[1], tokens)
         THEN << names[1] >> \o PassingNames(Tail(names), tokens)
         ELSE PassingNames(Tail(names), tokens)

\* C4: in cluster cleanup the clusters that receive a delete call are exactly the listed
\* ones that pass every filter predicate (no managed marker in the name and not in use by
\* an active build): at each point of the loop for the names processed so far, and for the
\* whole list when the run ends normally; for the listed names orphaned-1,
\* x-managed-prod-k8s-y, active-job-123 and the token production-active-job-123 exactly
\* orphaned-1 is deleted.
C4_DeletedIffPassesFilters ==
    /\ (command = "cleanup" /\ pc = "loop") =>
          delete_calls = PassingNames(SubSeq(cluster_names, 1, cl_i - 1), active_builds)
    /\ (command = "cleanup" /\ pc = "done" /\ list_result = "ok" /\ exit_status = "0") =>
          delete_calls = PassingNames(cluster_names, active_builds)
    /\ ( /\ command = "cleanup" /\ pc = "done" /\ exit_status = "0"
         /\ cluster_names = << "orphaned-1", "x-managed-prod-k8s-y", "active-job-123" >>
         /\ active_builds = << "production-active-job-123" >> )
       => delete_calls = << "orphaned-1" >>

C4_Witness ==
    /\ command = "cleanup" /\ pc = "done" /\ exit_status = "0"
    /\ cluster_names = << "orphaned-1", "x-managed-prod-k8s-y", "active-job-123" >>
    /\ active_builds = << "production-active-job-123" >>
    /\ delete_results = << "true" >>

\* C5: in cluster cleanup a delete call that raises a provider exception is logged with
\* an ERROR line naming the cluster and is not counted as deleted; the run goes on with
\* the remaining listed clusters, and when such a call was the last delete call of the run
\* the run ends with the whole list processed, the final 'Deleted N orphaned cluster(s)'
\* line and a normal return (exit status 0).
C5_DeleteErrorLoggedRunContinues ==
    command = "cleanup" =>
        /\ deleted_count =
              Cardinality({ i \in DOMAIN delete_results : delete_results[i] \in {"true", "false"} })
        /\ \A i \in DOMAIN delete_results :
              delete_results[i] \in {"cloud_exc", "cloud_dup"} =>
                 \E k \in DOMAIN out : out[k] = Line("ERROR", "Failed to delete cluster",
                                                     delete_calls[i], 0)
        /\ (Len(delete_results) > 0
            /\ delete_results[Len(delete_results)] \in {"cloud_exc", "cloud_dup"}) =>
              /\ pc \in {"loop", "done"}
              /\ pc = "loop" => (exit_status = "none" /\ cl_i <= Len(cluster_names))
              /\ pc = "done" =>
                    /\ exit_status = "0"
                    /\ cl_i = Len(cluster_names) + 1
                    /\ out[Len(out)] = Line("INFO", "Deleted orphaned cluster(s)", "",
                                            deleted_count)

C5_Witness ==
    /\ command = "cleanup" /\ pc = "done" /\ exit_status = "0"
    /\ Len(delete_results) = 2
    /\ delete_results[1] = "cloud_exc"
    /\ delete_results[2] = "true"
    /\ deleted_count = 1

\* C9: when listing the clusters fails, list_clusters and cluster cleanup end with exit
\* status 1 and no delete call: a provider exception prints 'ERROR: Failed to list
\* clusters', an unsupported operation (AttributeError) prints the distinct 'not
\* supported' diagnostic followed by the advice to upgrade the SDK.
C9_ListFailureExitsOne ==
    /\ list_result = "cloud_exc" =>
          /\ pc = "done"
          /\ exit_status = "1"
          /\ delete_calls = <<>>
          /\ out[Len(out)] = Line("ERROR", "Failed to list clusters", "", 0)
    /\ list_result = "attr_error" =>
          /\ pc = "done"
          /\ exit_status = "1"
          /\ delete_calls = <<>>
          /\ Len(out) >= 2
          /\ out[Len(out) - 1] =
                Line("ERROR", "COE cluster operations not supported by this OpenStack SDK version", "", 0)
          /\ out[Len(out)] = Line("", "Please ensure openstacksdk >= 4.0.0 is installed", "", 0)

C9_Witness ==
    /\ command = "cleanup"
    /\ list_result = "attr_error"
    /\ exit_status = "1"
    /\ Len(active_builds) > 0
    /\ Len(cloud_clusters) > 0

(***************************************************************************)
(* Properties of the deleters of the four cleanup utilities.               *)
(***************************************************************************)
\* a raised delete error of the server, volume or image cleanup whose message has one of
\* the two duplicate-name shapes, for the resource name it was raised for
DuplicateShape(kind, name, outcome) ==
    /\ outcome.ret = "raise"
    /\ \/ outcome.msg = "Multiple matches found for " \o name
       \/ outcome.msg = "More than one " \o KindWord(kind) \o " exists with the name '"
                         \o name \o "'"

\* a raised delete error of the server, volume or image cleanup of any other shape
OtherShape(kind, name, outcome) ==
    outcome.ret = "raise" /\ ~DuplicateShape(kind, name, outcome)

\* the run of the server, volume or image cleanup ended at delete call i, which raised
ResourceRunEndedAt(i) ==
    /\ i = Len(res_delete_results)
    /\ res_pc = "done"
    /\ res_exit = "raised"
    /\ candidates[res_i] = res_delete_calls[i]

\* the cluster cleanup run ended at delete call i
ClusterRunEndedAt(i) ==
    /\ i = Len(delete_results)
    /\ pc = "done"
    /\ exit_status \in {"1", "raised"}
    /\ cluster_names[cl_i] = delete_calls[i]

\* C6 as stated: in each of the four cleanup utilities a delete call that raises an error
\* matching neither duplicate-name shape ends the run: no further resource is processed.
C6_OtherErrorFatalEverywhere ==
    /\ \A i \in DOMAIN res_delete_results :
          OtherShape(utility, res_delete_calls[i].name, res_delete_results[i])
             => ResourceRunEndedAt(i)
    /\ \A i \in DOMAIN delete_results :
          delete_results[i] \in {"cloud_exc", "attr_error", "other_exc"}
             => ClusterRunEndedAt(i)

\* C6 amended: in the server, volume and image cleanups a delete call that raises an error
\* matching neither duplicate-name shape propagates and ends the run, no further resource
\* being processed; in cluster cleanup this holds for an error that is not a provider
\* exception (an AttributeError ends the run with exit status 1, any other class
\* propagates).
C6_OtherErrorFatal ==
    /\ \A i \in DOMAIN res_delete_results :
          OtherShape(utility, res_delete_calls[i].name, res_delete_results[i])
             => ResourceRunEndedAt(i)
    /\ \A i \in DOMAIN delete_results :
          /\ delete_results[i] = "attr_error" => (ClusterRunEndedAt(i) /\ exit_status = "1")
          /\ delete_results[i] = "other_exc" => (ClusterRunEndedAt(i) /\ exit_status = "raised")

C6_Witness ==
    /\ command = "cleanup"
    /\ cluster_names = << "orphaned-1", "active-job-123" >>
    /\ active_builds = <<>>
    /\ delete_results = << "other_exc" >>
    /\ pc = "done"

\* C7: in a server, volume or image cleanup run a delete call that raises a duplicate-name
\* error ('Multiple matches found for <name>' or 'More than one <Kind> exists with the
\* name ...') is counted as skipped and logged, the run goes on to the next candidate
\* (every remaining candidate still gets its delete call), and a run whose last delete
\* call raised it ends with exit status 0.
C7_DuplicateNameSkipped ==
    utility # "none" =>
        /\ \A i \in DOMAIN res_delete_results :
              DuplicateShape(utility, res_delete_calls[i].name, res_delete_results[i]) =>
                 /\ n_skipped >= Cardinality({ j \in 1..i :
                        DuplicateShape(utility, res_delete_calls[j].name, res_delete_results[j]) })
                 /\ \E k \in DOMAIN res_out :
                       /\ res_out[k].arg = res_delete_calls[i].name
                       /\ res_out[k].sev = "WARN"
                 /\ \/ i < Len(res_delete_results)
                    \/ res_pc = "loop" /\ res_exit = "none" /\ res_i = i + 1
                                       /\ res_i <= Len(candidates)
                    \/ res_pc = "done" /\ res_exit = "0" /\ res_i = Len(candidates) + 1
                                       /\ Len(res_delete_calls) = Len(candidates)
        /\ n_deleted + n_skipped <= Len(res_delete_results)
        /\ n_deleted = Cardinality({ j \in DOMAIN res_delete_results :
                                        res_delete_results[j].ret = "true" })

C7_Witness ==
    /\ utility = "server"
    /\ res_pc = "done"
    /\ res_exit = "0"
    /\ Len(res_delete_results) = 2
    /\ res_delete_results[1].msg = "More than one Server exists with the name 'server-old'"
    /\ res_delete_results[2].ret = "true"
    /\ n_skipped = 1
    /\ n_deleted = 1

\* C8 as stated: in each cleanup utility (servers, volumes, images, clusters) a delete
\* call that returns false without raising is counted as skipped and not as deleted, is
\* logged as a warning, and the run continues.
C8_FalseReturnSkipped ==
    /\ utility # "none" =>
          /\ n_deleted = Cardinality({ j \in DOMAIN res_delete_results :
                                          res_delete_results[j].ret = "true" })
          /\ \A i \in DOMAIN res_delete_results :
                res_delete_results[i].ret = "false" =>
                   /\ \E k \in DOMAIN res_out :
                         res_out[k].sev = "WARN" /\ res_out[k].arg = res_delete_calls[i].name
                   /\ (i = Len(res_delete_results) /\ res_pc = "done") => res_exit = "0"
    /\ command = "cleanup" =>
          /\ deleted_count = Cardinality({ j \in DOMAIN delete_results :
                                              delete_results[j] = "true" })
          /\ \A i \in DOMAIN delete_results :
                delete_results[i] = "false" =>
                   /\ \E k \in DOMAIN out :
                         out[k].sev = "WARN" /\ out[k].arg = delete_calls[i]
                   /\ (i = Len(delete_results) /\ pc = "done") => exit_status = "0"

\* C10: image cleanup never calls delete on an image that is protected, or whose
\* visibility is public or shared, or whose owner is not the current tenant, whatever its
\* age and the age threshold.
C10_ProtectedImagesNeverDeleted ==
    utility = "image" =>
        \A i \in DOMAIN res_delete_calls :
            /\ ~res_delete_calls[i].is_protected
            /\ res_delete_calls[i].visibility # "public"
            /\ res_delete_calls[i].visibility # "shared"
            /\ res_delete_calls[i].owner = tenant_id

C10_Witness ==
    /\ utility = "image"
    /\ days = 0
    /\ res_pc = "done"
    /\ res_exit = "0"
    /\ \E i \in DOMAIN cloud_resources : cloud_resources[i].name = "image-shared"
    /\ Len(res_delete_calls) = 1
    /\ res_delete_calls[1].name = "image-own"

(***************************************************************************)
(* C11: in a single-resource remove of a server or a volume, when the      *)
(* lookup of the given identifier returned nothing the run has ended with  *)
(* status 1 and no delete call was issued.                                 *)
(***************************************************************************)
C11_NotFoundExitsOne ==
    (rm_pc \in {"found", "done"} /\ ~rm_found.found) =>
        /\ rm_pc = "done"
        /\ rm_exit = "1"
        /\ rm_delete_calls = <<>>
        /\ rm_delete_results = <<>>

\* a volume exists, the identifier given answers to none, and the run ended
C11_Witness ==
    /\ rm_kind = "volume"
    /\ rm_pc = "done"
    /\ Len(rm_cloud) = 1
    /\ rm_ident = "nonexistent-volume"
    /\ ~rm_found.found
    /\ rm_exit = "1"

\* the age in minutes of the resource the lookup returned
FoundAge == rm_now - rm_found.created_at

(***************************************************************************)
(* C12: a single-resource remove with a minimum age of M minutes whose     *)
(* lookup found the resource: with M > 0 and an age below M no delete call *)
(* is issued and the run ends with status 0; with an age of at least M, or *)
(* with M = 0 whatever the age, exactly one delete call is issued, by name *)
(* for a server and by id for a volume.                                    *)
(***************************************************************************)
C12_MinimumAgeGuardsDelete ==
    /\ rm_pc # "done" => rm_delete_calls = <<>>
    /\ (rm_pc = "done" /\ rm_found.found) =>
          IF minutes > 0 /\ FoundAge < minutes
          THEN rm_delete_calls = <<>> /\ rm_exit = "0"
          ELSE rm_delete_calls =
                 << IF rm_kind = "server" THEN rm_found.name ELSE rm_found.id >>

\* a volume of exactly the minimum age was deleted by its id
C12_Witness ==
    /\ rm_kind = "volume"
    /\ rm_pc = "done"
    /\ minutes = 5
    /\ rm_found.found
    /\ FoundAge = 5
    /\ rm_delete_calls = << "volume-123" >>

\* the resources of a listing that are as old as the threshold asks, in listing order
RECURSIVE OldEnough(_, _, _)
OldEnough(rs, threshold, clock) ==
    IF Len(rs) = 0 THEN <<>>
    ELSE IF threshold <= 0 \/ clock - rs[1].created_at >= threshold
         THEN << rs[1] >> \o OldEnough(Tail(rs), threshold, clock)
         ELSE OldEnough(Tail(rs), threshold, clock)

(***************************************************************************)
(* C13: after a successful listing and before any delete, the servers or   *)
(* volumes kept by the age filter with threshold T > 0 are exactly the     *)
(* listed ones with now - created_at >= T, so that a resource created at   *)
(* exactly now - T is kept and a younger one is not; with a zero threshold *)
(* every listed resource is kept.  Every image kept passes the same test.  *)
(***************************************************************************)
C13_AgeFilterInclusive ==
    (res_pc \in {"loop", "done"} /\ res_exit \in {"none", "0"} /\ res_delete_calls = <<>>) =>
        /\ utility \in {"server", "volume"} =>
              candidates = OldEnough(cloud_resources, days, now)
        /\ days = 0 /\ utility \in {"server", "volume"} => candidates = cloud_resources
        /\ \A i \in 1..Len(candidates) :
              days > 0 => now - candidates[i].created_at >= days

\* a server created exactly at now - T is kept and one created a day ago is not
C13_Witness ==
    /\ utility = "server"
    /\ days = 5
    /\ res_pc = "loop"
    /\ res_delete_calls = <<>>
    /\ Len(cloud_resources) = 2
    /\ now - cloud_resources[1].created_at = days
    /\ now - cloud_resources[2].created_at < days
    /\ candidates = << cloud_resources[1] >>

\* how many entries of a committers list are among the approvers
VotedCount(committers, approvers) ==
    Cardinality({ i \in 1..Len(committers) :
                    \E j \in 1..Len(approvers) : approvers[j] = committers[i] })

\* the identifiers the file of a stage lists, by the key of the review system in use
ListedIds(file) ==
    LET entries == CommitterInfo(yaml_files, file) IN
    [i \in 1..Len(entries) |->
        IF github_repo.none THEN entries[i].id ELSE entries[i].github_id]

\* the tally of a stage went over the committers its file lists
TalliesTheFile(stage) == stage.committers = ListedIds(stage.file)

(***************************************************************************)
(* C14: every vote-tally stage that read its file tallies the committers   *)
(* listed in that file against the approving reviewers: with no committer  *)
(* among the approvers it fails with exit status 1; otherwise it passes    *)
(* exactly when twice the number of committers who voted is at least the   *)
(* number of committers (voted / total >= 0.5, so 2 of 4 passes and 1 of 4 *)
(* fails with exit status 1).  Approvers not listed in the file count for  *)
(* nothing.                                                                *)
(***************************************************************************)
C14_TallyStage ==
    \A k \in 1..Len(stages) :
        LET stage == stages[k]
            voted == VotedCount(stage.committers, stage.approvers)
            total == Len(stage.committers)
        IN  stage.outcome # "raised" =>
              /\ TalliesTheFile(stage)
              /\ stage.outcome \in {"passed", "exit1"}
              /\ voted = 0 => stage.outcome = "exit1"
              /\ voted > 0 => (stage.outcome = "passed" <=> 2 * voted >= total)
              /\ stage.outcome = "exit1" => (k = Len(stages) /\ vt_exit = "1")

\* two of four committers voted, next to a reviewer who is no committer, and the stage passed
C14_Witness ==
    /\ Len(stages) >= 1
    /\ Len(stages[1].committers) = 4
    /\ VotedCount(stages[1].committers, stages[1].approvers) = 2
    /\ stages[1].outcome = "passed"

\* the properties of the escalation that hold in every state
C15_StageBound ==
    /\ Len(stages) <= 2
    /\ majority_of_committers \in 0..2
    /\ (Len(stages) >= 1 /\ Truthy(tsc) /\ stages[1].outcome = "passed") =>
          IF Len(stages) = 1
          THEN vt_pc = "main" /\ info_file = tsc.val /\ majority_of_committers = 1
          ELSE stages[2].file = tsc.val
    /\ Len(stages) = 2 =>
          /\ Truthy(tsc)
          /\ stages[1].outcome = "passed"
          /\ vt_pc = "done"
    /\ (Len(stages) = 2 /\ stages[2].outcome = "passed") =>
          /\ majority_of_committers = 2
          /\ vt_exit = "0"
          /\ vt_out[Len(vt_out)].msg = "TSC majority reached auto merging commit"

(***************************************************************************)
(* C15: check-votes always ends, after at most two tally stages: with a    *)
(* TSC file given and the committer majority reached, main is called       *)
(* exactly once more, on the TSC file; when that second stage reaches the  *)
(* majority the escalation counter is 2 and the run reports final success  *)
(* with no third call.                                                     *)
(***************************************************************************)
C15_TwoStagesAtMost == []C15_StageBound /\ <>(vt_pc = "done")

\* both stages reached the majority and the counter stands at 2
C15_Witness ==
    /\ Len(stages) = 2
    /\ stages[2].outcome = "passed"
    /\ majority_of_committers = 2
    /\ vt_pc = "done"

\* a path of a TSC file was given on the command line
TscSupplied == ~tsc.none /\ tsc.val # ""

\* the committers listed in the file of the stage reach the majority among the approvers
ReachesMajority(stage) ==
    LET ids == ListedIds(stage.file)
        voted == VotedCount(ids, stage.approvers)
    IN  voted > 0 /\ 2 * voted >= Len(ids)

(***************************************************************************)
(* C20: with a TSC file given, check-votes ends with success only after    *)
(* the committers of info_file and then the committers of the TSC file     *)
(* both reached the majority; the TSC file is read only after the          *)
(* committer stage passed, and a failed committer stage exits with status  *)
(* 1 with the TSC file never read.  With no TSC file exactly one stage is  *)
(* evaluated.                                                              *)
(***************************************************************************)
C20_TscAfterCommitters ==
    /\ (TscSupplied /\ vt_exit = "0") =>
          /\ Len(stages) = 2
          /\ stages[1].file = "INFO.yaml" /\ ReachesMajority(stages[1])
          /\ stages[2].file = tsc.val /\ ReachesMajority(stages[2])
    /\ \A k \in 1..Len(stages) :
          (TscSupplied /\ stages[k].file = tsc.val) =>
              k = 2 /\ stages[1].outcome = "passed"
    /\ (TscSupplied /\ Len(stages) >= 1 /\ stages[1].outcome = "exit1") =>
          /\ vt_exit = "1"
          /\ vt_pc = "done"
          /\ Len(stages) = 1
    /\ ~TscSupplied =>
          /\ Len(stages) <= 1
          /\ vt_pc = "done" => (Len(stages) = 1 /\ stages[1].file = "INFO.yaml")

\* a pull request approved by both committers passed the committer and the TSC stage
C20_Witness ==
    /\ TscSupplied
    /\ ~github_repo.none
    /\ vt_exit = "0"
    /\ Len(stages) = 2
    /\ stages[1].file = "INFO.yaml"
    /\ stages[2].file = "TSC.yaml"

\* the names without a managed marker, in listing order
RECURSIVE UnmanagedNames(_)
UnmanagedNames(names) ==
    IF Len(names) = 0 THEN <<>>
    ELSE IF HasManagedMarker(names[1]) THEN UnmanagedNames(Tail(names))
    ELSE << names[1] >> \o UnmanagedNames(Tail(names))

(***************************************************************************)
(* C16: a cluster cleanup with at least one endpoint configured whose      *)
(* fetch collected no active build goes on to the listing, and every       *)
(* listed cluster without a managed marker receives a delete call: the     *)
(* ones processed so far during the loop, all of them when the run ends    *)
(* normally, and the ones up to the failing call when a fatal delete error *)
(* ends the run.                                                           *)
(***************************************************************************)
C16_EmptyBuildSetStillDeletes ==
    ( /\ command = "cleanup"
      /\ Len(jenkins_url_list) > 0
      /\ pc \in {"list", "loop", "done"}
      /\ active_builds = <<>> ) =>
        /\ pc = "done" => list_calls = 1
        /\ pc = "loop" =>
              delete_calls = UnmanagedNames(SubSeq(cluster_names, 1, cl_i - 1))
        /\ (pc = "done" /\ list_result = "ok" /\ exit_status = "0") =>
              delete_calls = UnmanagedNames(cluster_names)
        /\ (pc = "done" /\ list_result = "ok" /\ exit_status # "0") =>
              delete_calls = UnmanagedNames(SubSeq(cluster_names, 1, cl_i))

\* both endpoints failed, and both listed clusters received a delete call
C16_Witness ==
    /\ command = "cleanup"
    /\ pc = "done"
    /\ Len(fetch_log) = 2
    /\ fetch_log[1].resp.kind # "ok"
    /\ fetch_log[2].resp.kind # "ok"
    /\ active_builds = <<>>
    /\ cluster_names = << "orphaned-1", "active-job-123" >>
    /\ delete_calls = << "orphaned-1", "active-job-123" >>

\* the entry reports a running build: a currentExecutable with a url of job and number
HasRunningBuildUrl(e) ==
    /\ e.ce = "obj"
    /\ ~e.url.none
    /\ e.url.val \notin {"", "null"}
    /\ Contains(e.url.val, "/")

RECURSIVE CountRunning(_)
CountRunning(entries) ==
    IF Len(entries) = 0 THEN 0
    ELSE (IF HasRunningBuildUrl(entries[1]) THEN 1 ELSE 0) + CountRunning(Tail(entries))

(***************************************************************************)
(* C17: an endpoint that answers 200 with valid JSON contributes exactly   *)
(* one token per executor or one-off executor entry with a running-build   *)
(* url, whatever entries with no running build stand before or after it.   *)
(***************************************************************************)
C17_OneTokenPerRunningBuild ==
    \A i \in 1..Len(fetch_log) :
        fetch_log[i].resp.kind = "ok" =>
            Len(fetch_log[i].tokens) = CountRunning(FlattenComputers(fetch_log[i].resp.computer))

\* the line each failure of an endpoint is reported with
FailureMessage(kind) ==
    IF kind = "status" THEN "Failed to fetch data"
    ELSE IF kind = "timeout" THEN "Timeout fetching data"
    ELSE IF kind = "reqexc" THEN "Request failed"
    ELSE "Failed to parse JSON"

\* the tokens of the endpoints that answered 200 with valid JSON, in endpoint order
RECURSIVE TokensOfSucceeded(_)
TokensOfSucceeded(log) ==
    IF Len(log) = 0 THEN <<>>
    ELSE (IF log[1].resp.kind = "ok" THEN log[1].tokens ELSE <<>>)
         \o TokensOfSucceeded(Tail(log))

(***************************************************************************)
(* C18: the fetch never ends the run: an endpoint that answers a non-200   *)
(* status, times out, fails the request or answers invalid JSON has its    *)
(* ERROR line printed and contributes no token, every endpoint is queried  *)
(* in order whatever the earlier ones did, and the builds collected are    *)
(* the tokens of the endpoints that answered 200 with valid JSON, in       *)
(* endpoint order.                                                         *)
(***************************************************************************)
C18_FetchNeverRaises ==
    command = "cleanup" =>
        /\ \A i \in 1..Len(fetch_log) :
              fetch_log[i].resp.kind \in {"status", "timeout", "reqexc", "badjson"} =>
                /\ fetch_log[i].tokens = <<>>
                /\ \E k \in 1..Len(out) :
                      /\ out[k].sev = "ERROR"
                      /\ out[k].msg = FailureMessage(fetch_log[i].resp.kind)
                      /\ out[k].arg = fetch_log[i].jenkins
        /\ pc = "fetch" => (exit_status = "none" /\ Len(fetch_log) = url_i - 1)
        /\ (pc \in {"list", "loop", "done"} /\ Len(jenkins_url_list) > 0) =>
              /\ Len(fetch_log) = Len(jenkins_url_list)
              /\ \A i \in 1..Len(fetch_log) :
                    fetch_log[i].jenkins = RStripChar(jenkins_url_list[i], "/")
        /\ active_builds = TokensOfSucceeded(fetch_log)

\* the first endpoint timed out, the second was still queried and gave the builds
C18_Witness ==
    /\ command = "cleanup"
    /\ pc = "list"
    /\ Len(fetch_log) = 2
    /\ fetch_log[1].resp.kind = "timeout"
    /\ fetch_log[2].resp.kind = "ok"
    /\ active_builds = << "sandbox-active-job-123" >>

EndsWith(s, suffix) ==
    Len(s) >= Len(suffix) /\ SubSeq(s, Len(s) - Len(suffix) + 1, Len(s)) = suffix

\* the host of an endpoint URL of the form scheme://host/path
EndpointHost(jenkins) == SplitOn(jenkins, "/")[3]

\* the host matches jenkins.*.org or jenkins.*.io
HostIsProduction(host) ==
    StartsWith(host, "jenkins.") /\ (EndsWith(host, ".org") \/ EndsWith(host, ".io"))

\* the token the running build of an entry stands for, by the host of the endpoint
HostSiloToken(jenkins, e) ==
    LET segments == SplitOn(jenkins, "/")
        silo == IF HostIsProduction(EndpointHost(jenkins)) THEN "production"
                ELSE segments[Len(segments)]
        parts == SplitOn(RStripChar(e.url.val, "/"), "/")
    IN  silo \o "-" \o parts[Len(parts) - 1] \o "-" \o parts[Len(parts)]

(***************************************************************************)
(* C19: every active-build token is <silo>-<job>-<build-number> for a      *)
(* running build of its endpoint: job and build-number the last two        *)
(* segments of the build's url without trailing slashes, silo "production" *)
(* when the host of the endpoint matches jenkins.*.org or jenkins.*.io and *)
(* the last path segment of the endpoint URL otherwise.                    *)
(***************************************************************************)
C19_TokenForm ==
    \A i \in 1..Len(fetch_log) :
        LET entries == FlattenComputers(fetch_log[i].resp.computer) IN
        \A j \in 1..Len(fetch_log[i].tokens) :
            \E k \in 1..Len(entries) :
                /\ HasRunningBuildUrl(entries[k])
                /\ fetch_log[i].tokens[j] = HostSiloToken(fetch_log[i].jenkins, entries[k])

\* the order of the steps of a cleanup, as far as one state shows it
C21_Order ==
    command = "cleanup" =>
        /\ list_calls \in {0, 1}
        /\ Len(http_gets) <= Len(jenkins_url_list)
        /\ pc = "start" => http_gets = <<>>
        /\ pc \in {"start", "fetch", "list"} => (list_calls = 0 /\ delete_calls = <<>>)
        /\ list_calls = 1 => Len(http_gets) = Len(jenkins_url_list)
        /\ delete_calls # <<>> => (list_calls = 1 /\ list_result = "ok")

\* a step of the loop leaves the tokens and the names alone and decides on them
C21_SnapshotKept ==
    (command = "cleanup" /\ pc = "loop") =>
        /\ active_builds' = active_builds
        /\ cluster_names' = cluster_names
        /\ http_gets' = http_gets
        /\ list_calls' = list_calls
        /\ delete_calls' # delete_calls =>
              /\ delete_calls' = Append(delete_calls, cluster_names[cl_i])
              /\ ~HasManagedMarker(cluster_names[cl_i])
              /\ ~InJoinedTokens(cluster_names[cl_i], active_builds)

(***************************************************************************)
(* C21: in one cluster cleanup run every endpoint is queried once and      *)
(* before the cloud is listed, the clusters are listed once and before any *)
(* delete call, and every step of the loop decides on the tokens and names *)
(* obtained then: neither is fetched again between the delete calls.       *)
(***************************************************************************)
C21_StrictOrder == []C21_Order /\ [][C21_SnapshotKept]_vars

\* the first delete changed the cloud, the second call still went by the names listed
C21_Witness ==
    /\ command = "cleanup"
    /\ pc = "done"
    /\ Len(http_gets) = 2
    /\ list_calls = 1
    /\ Len(delete_calls) = 2
    /\ delete_results[1] = "true"
    /\ cloud_clusters # cluster_names

\* how often a name stands in a list
Occurrences(list, name) == Cardinality({ i \in 1..Len(list) : list[i] = name })

(***************************************************************************)
(* C22, as stated: no cluster name receives more than one delete call in   *)
(* one cleanup run, and the delete calls are no more than the clusters     *)
(* listed.                                                                 *)
(***************************************************************************)
C22_AtMostOncePerName ==
    command = "cleanup" =>
        /\ \A i, j \in 1..Len(delete_calls) :
              i # j => delete_calls[i] # delete_calls[j]
        /\ Len(delete_calls) <= Len(cluster_names)

(***************************************************************************)
(* C22, amended: in one cleanup run every listed cluster receives at most  *)
(* one delete call: a name receives no more calls than the listing holds   *)
(* clusters of that name, no call is issued again after a failure (the     *)
(* calls are no more than the list positions processed), and the calls are *)
(* no more than the clusters listed.                                       *)
(***************************************************************************)
C22_AtMostOncePerListedCluster ==
    command = "cleanup" =>
        /\ \A k \in 1..Len(delete_calls) :
              Occurrences(delete_calls, delete_calls[k])
                <= Occurrences(cluster_names, delete_calls[k])
        /\ Len(delete_calls) <= (IF pc = "loop" THEN cl_i - 1 ELSE cl_i)
        /\ Len(delete_calls) <= Len(cluster_names)

\* two clusters of one name: the call for the first failed, the second got its own call
C22_Witness ==
    /\ command = "cleanup"
    /\ pc = "done"
    /\ cluster_names = << "orphaned-1", "orphaned-1" >>
    /\ delete_calls = << "orphaned-1", "orphaned-1" >>
    /\ delete_results[1] = "cloud_exc"

\* names without a space: those of the clusters, and pieces of tokens and of their joints
ProbeNames ==
    ClusterNamePool \cup { "1sandbox", "1production", "job", "123", "-", "production-active" }

(***************************************************************************)
(* C29: for every non-empty name without a space and the tokens collected, *)
(* _cluster_in_jenkins is true exactly when some single token contains the *)
(* name as a contiguous substring.                                         *)
(***************************************************************************)
C29_InJenkinsIffSomeToken ==
    \A name \in ProbeNames :
        ClusterInJenkins(name, active_builds)
          <=> \E i \in 1..Len(active_builds) : Contains(active_builds[i], name)

\* two tokens were collected and a cluster was found in use by one of them
C29_Witness ==
    /\ command = "cleanup"
    /\ active_builds = << "production-orphaned-1", "sandbox-active-job-123" >>
    /\ \E k \in 1..Len(out) :
          /\ out[k].msg = "Cluster is in use by active build, skipping"
          /\ out[k].arg = "active-job-123"

\* the run ended on the line "No one has voted:"
EndsOnNoVote ==
    /\ vt_out # <<>>
    /\ vt_out[Len(vt_out)].msg = "No one has voted:"

(***************************************************************************)
(* C28: check-votes never divides by zero: every ratio it computes has a   *)
(* committers count other than zero, and a stage whose committers list is  *)
(* empty, or where no committer has voted, computes no ratio and exits     *)
(* with status 1 on the line "No one has voted:".                          *)
(***************************************************************************)
C28_NoDivisionByZero ==
    /\ \A d \in 1..Len(divisions) : divisions[d].den # 0
    /\ \A i \in 1..Len(stages) :
         ( /\ stages[i].outcome # "raised"
           /\ \/ stages[i].committers = <<>>
              \/ VotedCount(stages[i].committers, stages[i].approvers) = 0 )
           => /\ stages[i].outcome = "exit1"
              /\ EndsOnNoVote
              /\ i = Len(stages)
              /\ vt_exit = "1"
              /\ Len(divisions) = i - 1

\* a stage with an empty committers list, and one with committers none of whom voted
C28_Witness ==
    /\ vt_exit = "1"
    /\ stages # <<>>
    /\ stages[Len(stages)].outcome = "exit1"
    /\ stages[Len(stages)].committers = <<>>
    /\ stages[Len(stages)].approvers # <<>>

\* the elements of a list
Elems(list) == { list[i] : i \in 1..Len(list) }

\* the identifiers of the INFO file committers, in the mode of the run
InfoIds ==
    { IF Truthy(githuborg) THEN lf_info[i].github_id ELSE lf_info[i].id :
        i \in 1..Len(lf_info) }

\* the accounts the match sets aside: lfservices_releng in LDAP mode
SetAside == IF Truthy(githuborg) THEN {} ELSE {ServiceAccount}

\* the number of requests of a method issued for a user
CallsFor(method, user) ==
    Cardinality({ k \in 1..Len(api_calls) : api_calls[k] = ApiCall(method, user) })

\* a match that ran to its end with every request answered 200
MatchSucceeded ==
    /\ lf_op = "match"
    /\ lf_exit = "0"
    /\ \A k \in 1..Len(api_statuses) : api_statuses[k] = 200

(***************************************************************************)
(* C23: after a match with noop false in which every request succeeded,    *)
(* each user of the group who is not an INFO committer got one remove call *)
(* and no add call, each INFO committer who was not in the group got one   *)
(* add call and no remove call, users in both got no call, and the group   *)
(* holds the INFO committers (lfservices_releng aside in LDAP mode).       *)
(***************************************************************************)
C23_GroupMatchesInfo ==
    (MatchSucceeded /\ noop = FALSE) =>
        /\ \A u \in (Elems(ldap_committers) \cup InfoIds) \ SetAside :
             /\ CallsFor("DELETE", u) =
                  (IF u \in Elems(ldap_committers) /\ u \notin InfoIds THEN 1 ELSE 0)
             /\ CallsFor("PUT", u) =
                  (IF u \in InfoIds /\ u \notin Elems(ldap_committers) THEN 1 ELSE 0)
        /\ Elems(group_members) \ SetAside = InfoIds \ SetAside

\* an LDAP match that removed a user, added a user and left a user of both sides alone
C23_Witness ==
    /\ MatchSucceeded
    /\ noop = FALSE
    /\ ~Truthy(githuborg)
    /\ \E u \in Elems(ldap_committers) \ InfoIds : CallsFor("DELETE", u) = 1
    /\ \E u \in InfoIds \ Elems(ldap_committers) : CallsFor("PUT", u) = 1
    /\ \E u \in InfoIds \cap Elems(ldap_committers) : u # ServiceAccount

C25_NoopChangesNothing ==
    (lf_op = "match" /\ noop = TRUE) =>
        /\ api_calls = <<>>
        /\ (lf_pc = "loop" \/ lf_exit = "0") => group_members = ldap_committers
        /\ lf_exit = "0" =>
             Cardinality({ k \in 1..Len(lf_out) :
                             lf_out[k].msg \in {"scheduled for removal",
                                                "scheduled for addition"} })
               = Cardinality({ u \in Elems(all_users) :
                                 (u \in Elems(ldap_committers)) # (u \in InfoIds) })

\* a noop match that ran to its end and reported a removal and an addition
C25_Witness ==
    /\ lf_op = "match"
    /\ noop = TRUE
    /\ lf_exit = "0"
    /\ \E k \in 1..Len(lf_out) : lf_out[k].msg = "scheduled for removal"
    /\ \E k \in 1..Len(lf_out) : lf_out[k].msg = "scheduled for addition"

\* the list goes up strictly in code point order
Ascending(list) ==
    \A i \in 1..(Len(list) - 1) : StrLess(list[i], list[i + 1])

\* the users of the requests issued, in call order
CalledUsers == [k \in 1..Len(api_calls) |-> api_calls[k].user]

\* the users whose request of the method was answered 200
Applied(method) ==
    { api_calls[k].user : k \in { j \in 1..Len(api_calls) :
                                    /\ api_calls[j].method = method
                                    /\ api_statuses[j] = 200 } }

(***************************************************************************)
(* C26: an LDAP match goes through the users in ascending order; the first *)
(* add or remove request answered with a status other than 200 is the     *)
(* last request of the run, the run then ends with status 1 on that user   *)
(* with nothing printed after the error, and the group keeps every change  *)
(* applied before.                                                         *)
(***************************************************************************)
C26_StopsAtFirstFailure ==
    (lf_op = "match" /\ ~Truthy(githuborg)) =>
        /\ Ascending(all_users)
        /\ Ascending(CalledUsers)
        /\ \A k \in 1..Len(api_calls) :
             /\ \E i \in 1..Len(all_users) :
                  all_users[i] = api_calls[k].user /\ i <= lf_i
             /\ api_statuses[k] # 200 =>
                  /\ k = Len(api_calls)
                  /\ lf_exit = "1"
                  /\ lf_pc = "done"
                  /\ all_users[lf_i] = api_calls[k].user
                  /\ lf_out[Len(lf_out)].sev = "ERROR"
        /\ (lf_pc = "loop" \/ api_calls # <<>>) =>
             Elems(group_members) =
               (Elems(ldap_committers) \ Applied("DELETE")) \cup Applied("PUT")

\* an LDAP match stopped by a failed request after an applied one, with users left over
C26_Witness ==
    /\ lf_op = "match"
    /\ ~Truthy(githuborg)
    /\ lf_exit = "1"
    /\ Len(api_calls) >= 2
    /\ api_statuses[1] = 200
    /\ api_statuses[Len(api_statuses)] # 200
    /\ lf_i < Len(all_users)
    /\ group_members # ldap_committers
    /\ \E i \in 1..(Len(all_users) - 1) : all_users[i] = "Bob" /\ all_users[i + 1] = "alice"

(***************************************************************************)
(* C30: helper_create_group sends the create request only when the         *)
(* existence check answered a status other than 200, and then sends it     *)
(* once; when the check answered 200 it logs the error "already exists"    *)
(* and sends no request.                                                   *)
(***************************************************************************)
C30_CreateOnlyWhenAbsent ==
    (lf_op = "create_group") =>
        /\ api_calls # <<>> => group_status # 200
        /\ lf_pc = "done" =>
             IF group_status = 200
             THEN /\ api_calls = <<>>
                  /\ Len(lf_out) = 1
                  /\ lf_out[1].sev = "ERROR"
                  /\ lf_out[1].msg = "already exists. Exiting..."
             ELSE /\ Len(api_calls) = 1
                  /\ api_calls[1].method = "POST"

\* a create for a group that exists, ended without a request
C30_Witness ==
    /\ lf_op = "create_group"
    /\ lf_pc = "done"
    /\ group_status = 200
    /\ api_calls = <<>>
    /\ lf_out # <<>>

\* the ids a committers list holds
IdsOf(list) == { list[i].id : i \in 1..Len(list) }

\* the entry is the name, company, email, id and timezone of the record
TakenFrom(entry, rec) ==
    /\ entry.name = rec.name
    /\ entry.company = rec.company
    /\ entry.email = rec.email
    /\ entry.id = rec.id
    /\ entry.timezone = rec.timezone

\* the INFO file is written at most once in a run
C27_AtMostOneWrite == Len(sy_writes) <= 1

\* what one step of sync-committers does to the INFO file
C27_WriteStep ==
    LET absent == sy_id \notin IdsOf(info_data.committers)
        present == sy_id \in IdsOf(ldap_data)
        old == info_data.committers
        new == info_data'.committers
    IN  /\ sy_writes' # sy_writes =>
             /\ absent
             /\ present
             /\ sy_writes' = Append(sy_writes, info_data')
             /\ Len(new) = Len(old) + 1
             /\ SubSeq(new, 1, Len(old)) = old
             /\ \E k \in 1..Len(ldap_data) :
                  ldap_data[k].id = sy_id /\ TakenFrom(new[Len(new)], ldap_data[k])
        /\ sy_writes' = sy_writes => info_data' = info_data
        /\ (~absent \/ ~present) => sy_writes' = sy_writes
        /\ (absent /\ present /\ sy_exit' = "0") => sy_writes' # sy_writes

(***************************************************************************)
(* C27: sync-committers writes the INFO file only when the id is absent    *)
(* from the INFO committers and present among the LDAP committers; the     *)
(* file written then holds the committers it held before, unchanged and in *)
(* order, followed by one entry taken from an LDAP record of the id.       *)
(* When the id is already a committer, or is not in the LDAP file, nothing *)
(* is written and the INFO file keeps its content.                         *)
(***************************************************************************)
C27_SyncWritesOnlyNewCommitter == []C27_AtMostOneWrite /\ [][C27_WriteStep]_vars

\* a run that appended a committer to an INFO file that held another one
C27_Witness ==
    /\ sy_writes # <<>>
    /\ sy_exit = "0"
    /\ Len(info_data.committers) >= 2
    /\ Len(LdapMatches(ldap_data, sy_id)) >= 2

=============================================================================
